---- MODULE Spec2Model ----
(***************************************************************************)
(* Model of the atlas geocoding service: the scheduler loop (Run), one     *)
(* processing cycle (processTask), the worker pool (worker), the           *)
(* repository the workers write to, and the process entry point (main).    *)
(***************************************************************************)
EXTENDS Integers, Sequences, FiniteSets, TLC

\* ------------------------------------------------------------------ bounds
NumWorkers == 2     \* gs.numWorkers of the modelled configuration
NumTasks == 2       \* rows of public.tasks in the modelled database
MaxTicks == 3       \* ticks the ticker fires in a modelled run
MaxAddrLen == 5     \* characters of an address handed to a provider
MaxResults == 2     \* results in a Google Maps geocoding response
MaxWorkers == 52     \* largest worker count (in absolute value) main is started with
MaxRateLimit == 8   \* largest ProviderConfig.RateLimit configured

\* -------------------------------------------------------- program constants
taskLimit == 100    \* processTask: taskLimit := 100
MaxAttempts == 5    \* FetchTasksForGeocoding: geocoding_attempts < 5
TickerCap == 1      \* time.Ticker: channel C holds at most one tick
visicomRateLimit == 5   \* newVisicomProvider: config.RateLimit = 5

Workers == 1..NumWorkers
TaskIds == 1..NumTasks

NoCoords == "null"     \* latitude IS NULL
NoError == "null"      \* geocoding_error IS NULL
addresPrefix == "UA, "
Address(t) == IF t = 1 THEN "Kyiv" ELSE IF t = 2 THEN "Lviv" ELSE "Odesa"

\* what provider.Geocode(ctx, address) may return: (coords, nil) or (nil, err).
\* The coordinates are those of the address asked for.
ErrTexts == {"geocoding failed"}
GeocodeResults(address) ==
    {[ok |-> TRUE, val |-> "@" \o address]} \cup [ok : {FALSE}, val : ErrTexts]

VARIABLES
    cancelled,      \* ctx.Done() is closed
    exited,         \* main has returned: the process is gone
    tickerOn,       \* between time.NewTicker and ticker.Stop
    tickBuf,        \* ticks waiting in ticker.C
    ticksFired,     \* ticks the ticker has fired so far
    ticksDropped,   \* ticks dropped because ticker.C was full
    runPc,          \* position of Run
    ptPc,           \* position of processTask
    tasks,          \* processTask: the fetched batch
    pushed,         \* processTask: tasks sent on jobs so far
    jobs,           \* the jobs channel's buffer
    jobsCap,        \* capacity of the jobs channel (0: no channel made)
    jobsClosed,     \* close(jobs) has happened
    wg,             \* the WaitGroup counter
    wPc,            \* position of each worker
    wTask,          \* worker: the task it holds
    wRes,           \* worker: what Geocode returned to it
    db,             \* public.tasks
    metrics,        \* the Prometheus metrics
    lastFetch,      \* outcome of this cycle's FetchTasksForGeocoding
    fetchCalls,     \* FetchTasksForGeocoding calls so far
    spawned,        \* worker goroutines started in this cycle
    recvLog,        \* per task: how many times it was received from jobs in this cycle
    geocodeLog,     \* per task: Geocode calls of this cycle and their results
    writeLog,       \* per task: repository writes of this cycle
    cancelledEarly, \* the context was cancelled before the ticker's first tick
    cancelledInBatch, \* the context was cancelled while a batch had tasks still to be handled
    numWorkers,     \* gs.numWorkers
    prefix,         \* gs.addresPrefix
    totals,         \* since the start: tasks received by workers, provider.Geocode calls
    npPc,           \* NominatimProvider.Geocode: position
    npAddress,      \* NominatimProvider.Geocode: the address argument
    addressVariations, \* NominatimProvider.Geocode: the generated variations
    idx,            \* NominatimProvider.Geocode: the loop index (from 0)
    httpLog,        \* the outbound requests of this Geocode call, with their responses
    npRet,          \* what NominatimProvider.Geocode returned
    gpCall,         \* a GoogleProvider.Geocode invocation: argument, client requests, return
    fcCall,         \* a NewProvider invocation: configuration and return
    vpCall,         \* a VisicomProvider.Geocode invocation: position, arguments, requests, return
    cfgCall,        \* a config.MustLoad invocation: environment and outcome
    mainCall        \* main's startup: configuration, provider configuration, outcome

svcVars == <<cancelled, exited, tickerOn, tickBuf, ticksFired, ticksDropped, runPc,
             ptPc, tasks, pushed, jobs, jobsCap, jobsClosed, wg, wPc, wTask, wRes,
             db, metrics, lastFetch, fetchCalls, spawned, recvLog, geocodeLog,
             writeLog, cancelledEarly, cancelledInBatch, numWorkers, prefix, totals>>
provVars == <<npPc, npAddress, addressVariations, idx, httpLog, npRet, gpCall, fcCall,
              vpCall, cfgCall, mainCall>>
vars == <<svcVars, provVars>>

envVars == <<cancelled, tickerOn, tickBuf, ticksFired, ticksDropped, cancelledEarly,
             cancelledInBatch, numWorkers, prefix>>
cycleVars == <<tasks, pushed, jobs, jobsCap, jobsClosed, wg, lastFetch, spawned>>
workerVars == <<wPc, wTask, wRes>>
logVars == <<recvLog, geocodeLog, writeLog, totals>>

NoTask == 0
NoResult == [ok |-> FALSE, val |-> NoError]
EmptyLog == [t \in TaskIds |-> <<>>]

\* ------------------------------------------------ providers: data types
\* a string is a sequence of characters
Alphabet == {"a", "b", ",", " "}
Addresses == UNION {[1..n -> Alphabet] : n \in 0..MaxAddrLen}

StatusOK == 200
StatusTooManyRequests == 429

\* latitude and longitude as the decimal text a Nominatim result carries
CoordTexts == {<<"1">>, <<"-", "1", ".", "5">>, <<"x">>, <<"1", "x">>, <<>>}

\* a response body: its bytes, whether json.Unmarshal decodes it into
\* []nominatimResponse, and the decoded results
NoBody == [raw |-> "", json |-> FALSE, results |-> <<>>]
Bodies ==
    {[raw |-> "[]", json |-> TRUE, results |-> <<>>],
     [raw |-> "invalid json", json |-> FALSE, results |-> <<>>]}
    \cup {[raw |-> "[{lat,lon}]", json |-> TRUE, results |-> <<[Lat |-> la, Lon |-> lo]>>] :
              la \in CoordTexts, lo \in CoordTexts}
    \cup {[raw |-> "[{lat,lon},{lat,lon}]", json |-> TRUE,
           results |-> <<[Lat |-> <<"1">>, Lon |-> <<"1">>], [Lat |-> <<"x">>, Lon |-> <<>>]>>]}

\* what HTTPClient.Do returns: an error, or a response with status and body
HTTPResponses ==
    {[err |-> TRUE, status |-> 0, body |-> NoBody]}
    \cup [err : {FALSE}, status : {StatusOK, StatusTooManyRequests}, body : Bodies]

\* errors: the message, the error errors.Is finds in the chain, and what the
\* message is formatted with
NilErr == [msg |-> "", is |-> "", status |-> 0, body |-> NoBody, text |-> <<>>]
ErrNominatimEmptyResponse ==
    [NilErr EXCEPT !.msg = "nominatim API returned empty response",
                   !.is = "ErrNominatimEmptyResponse"]
ErrNominatimInvalidCoords ==
    [NilErr EXCEPT !.msg = "nominatim API returned invalid coordinates",
                   !.is = "ErrNominatimInvalidCoords"]
ErrorsIs(err, target) == err.is = target.is

NilCoords == [Latitude |-> <<>>, Longitude |-> <<>>]
NoReturn == [coords |-> NilCoords, err |-> NilErr]     \* the call has not returned
NoCall == [called |-> FALSE]                           \* the function has not been called

\* ------------------------------------------------ providers: strings
MinOf(S) == CHOOSE i \in S : \A j \in S : i <= j
MaxOf(S) == CHOOSE i \in S : \A j \in S : j <= i

RECURSIVE Split(_, _)
\* strings.Split(s, sep) for a one-character separator
Split(s, sep) ==
    LET at == {i \in 1..Len(s) : s[i] = sep} IN
    IF at = {} THEN <<s>>
    ELSE <<SubSeq(s, 1, MinOf(at) - 1)>> \o Split(SubSeq(s, MinOf(at) + 1, Len(s)), sep)

\* strings.TrimSpace
TrimSpace(s) ==
    LET keep == {i \in 1..Len(s) : s[i] # " "} IN
    IF keep = {} THEN <<>> ELSE SubSeq(s, MinOf(keep), MaxOf(keep))

RECURSIVE Join(_, _)
\* strings.Join
Join(elems, sep) ==
    IF Len(elems) = 0 THEN <<>>
    ELSE IF Len(elems) = 1 THEN elems[1]
    ELSE elems[1] \o sep \o Join(Tail(elems), sep)

\* addVariation without the `v != ""` test
addVariationKeepsEmpty(variations, v) ==
    IF \A i \in 1..Len(variations) : variations[i] # v
    THEN Append(variations, v)
    ELSE variations

\* ------------------------------------- NominatimProvider: address fallbacks
\* addVariation: append v unless it is empty or was seen
addVariation(variations, v) ==
    IF v # <<>> /\ \A i \in 1..Len(variations) : variations[i] # v
    THEN Append(variations, v)
    ELSE variations

\* generateAddressFallbacks without the `seen` map: every variation is appended
generateAddressFallbacksNoSeen(address) ==
    IF address = <<>> THEN << <<>> >>
    ELSE
    LET split == Split(address, ",")
        parts == [i \in 1..Len(split) |-> TrimSpace(split[i])]
        n == Len(parts)
        app(vs, v) == IF v # <<>> THEN Append(vs, v) ELSE vs
        v1 == app(<<>>, address)
        v2 == IF n > 1 THEN app(v1, Join(SubSeq(parts, 1, n - 1), <<",", " ">>)) ELSE v1
        v3 == IF n > 2 THEN app(v2, Join(SubSeq(parts, 1, n - 2), <<",", " ">>)) ELSE v2
    IN IF n > 1 THEN app(v3, parts[1]) ELSE v3

generateAddressFallbacks(address) ==
    IF address = <<>> THEN << <<>> >>
    ELSE
    LET split == Split(address, ",")
        parts == [i \in 1..Len(split) |-> TrimSpace(split[i])]
        n == Len(parts)
        v1 == addVariation(<<>>, address)
        v2 == IF n > 1
              THEN addVariation(v1, Join(SubSeq(parts, 1, n - 1), <<",", " ">>))
              ELSE v1
        v3 == IF n > 2
              THEN addVariation(v2, Join(SubSeq(parts, 1, n - 2), <<",", " ">>))
              ELSE v2
    IN IF n > 1 THEN addVariation(v3, parts[1]) ELSE v3

\* no coordinates: the nil *models.Coordinates of a Visicom return
VNilCoords == [set |-> FALSE, Latitude |-> 0, Longitude |-> 0]

\* a Visicom response body: whether it decodes, and geo_centroid.coordinates
VNoBody == [raw |-> "", json |-> FALSE, coordinates |-> <<>>]

\* the nil error of a Visicom return
VNilErr == [msg |-> "", is |-> "", status |-> 0, body |-> VNoBody]

\* VisicomProvider.Geocode before it is called
VpIdle == [pc |-> "idle", address |-> <<>>, limiter |-> "inf", cancelled |-> FALSE,
           waited |-> FALSE, granted |-> FALSE, requests |-> <<>>,
           ret |-> [coords |-> VNilCoords, err |-> VNilErr]]

\* config.MustLoad before it is called
NoLoad == [called |-> FALSE]

\* the state after construction, but for the worker count and the database
InitOther ==
    /\ cancelled = FALSE
    /\ exited = FALSE
    /\ tickerOn = FALSE
    /\ tickBuf = 0
    /\ ticksFired = 0
    /\ ticksDropped = 0
    /\ runPc = "start"
    /\ ptPc = "idle"
    /\ tasks = <<>>
    /\ pushed = 0
    /\ jobs = <<>>
    /\ jobsCap = 0
    /\ jobsClosed = FALSE
    /\ spawned = 0
    /\ wg = 0
    /\ wPc = [w \in Workers |-> "none"]
    /\ wTask = [w \in Workers |-> NoTask]
    /\ wRes = [w \in Workers |-> NoResult]
    /\ metrics = [active |-> 0, success |-> 0, failure |-> 0, apiErrors |-> 0, observed |-> 0]
    /\ lastFetch = "none"
    /\ fetchCalls = 0
    /\ recvLog = [t \in TaskIds |-> 0]
    /\ geocodeLog = EmptyLog
    /\ writeLog = EmptyLog
    /\ cancelledEarly = FALSE
    /\ cancelledInBatch = FALSE
    /\ totals = [taken |-> 0, calls |-> 0]
    /\ npPc = "idle"
    /\ npAddress = <<>>
    /\ addressVariations = <<>>
    /\ idx = 0
    /\ httpLog = <<>>
    /\ npRet = NoReturn
    /\ gpCall = NoCall
    /\ fcCall = NoCall
    /\ vpCall = VpIdle
    /\ cfgCall = NoLoad
    /\ mainCall = NoCall

\* public.tasks with no task attempted yet
FreshTasks == [t \in TaskIds |-> [attempts |-> 0, coords |-> NoCoords, error |-> NoError]]

Init ==
    /\ prefix = addresPrefix
    /\ numWorkers = NumWorkers
    /\ db = FreshTasks
    /\ InitOther

\* public.tasks as earlier runs of the service left it: every task has failed
\* before, the first one MaxAttempts - 1 times
BacklogTasks ==
    [t \in TaskIds |-> [attempts |-> MaxAttempts - t, coords |-> NoCoords,
                        error |-> "geocoding failed"]]

\* the service constructed with any worker count: NewGeocodingServie takes
\* the integer as it is, and so does MustLoad
WorkerCounts == (0 - 1)..NumWorkers

InitAnyWorkers ==
    /\ prefix = addresPrefix
    /\ numWorkers \in WorkerCounts
    /\ db = FreshTasks
    /\ InitOther

\* the prefixes main may configure: ATLAS_ADDRESS_PREFIX defaults to ""
Prefixes == {"", addresPrefix}

InitAnyPrefix ==
    /\ prefix \in Prefixes
    /\ numWorkers = NumWorkers
    /\ db = FreshTasks
    /\ InitOther

InitBacklog ==
    /\ prefix = addresPrefix
    /\ numWorkers = NumWorkers
    /\ db = BacklogTasks
    /\ InitOther

\* ------------------------------------------------------------ repository
RECURSIVE SelectRows(_, _)
\* the rows the query's WHERE clause keeps, in created_at order, from row t on
SelectRows(d, t) ==
    IF t > NumTasks THEN <<>>
    ELSE IF /\ d[t].coords = NoCoords
            /\ d[t].attempts < MaxAttempts
            /\ Address(t) # ""
         THEN <<t>> \o SelectRows(d, t + 1)
         ELSE SelectRows(d, t + 1)

\* a LIMIT that stops one row early
LimitOneShort(s, n) == IF Len(s) < n THEN s ELSE SubSeq(s, 1, n - 1)

Limit(s, n) == IF Len(s) <= n THEN s ELSE SubSeq(s, 1, n)

\* the query without its `geocoding_attempts < 5` condition
FetchTasksAnyAttempts(d, limit) ==
    Limit(SelectSeq([i \in 1..NumTasks |-> i],
                    LAMBDA t : d[t].coords = NoCoords /\ Address(t) # ""), limit)

FetchTasksForGeocoding(d, limit) == Limit(SelectRows(d, 1), limit)

UpdateTaskCoordinates(d, taskID, coords) ==
    [d EXCEPT ![taskID] = [@ EXCEPT !.coords = coords, !.error = NoError]]

IncrementFailureCount(d, taskID, errMsg) ==
    [d EXCEPT ![taskID] = [@ EXCEPT !.attempts = @ + 1, !.error = errMsg]]

\* ------------------------------------------------------------ environment
\* the shutdown signal (or the caller) cancels the context
Cancel ==
    /\ ~exited
    /\ UNCHANGED provVars
    /\ ~cancelled
    /\ cancelled' = TRUE
    /\ cancelledEarly' = (ticksFired = 0)
    /\ cancelledInBatch' = (ptPc \in {"push", "wait"} /\ (jobs # <<>> \/ pushed < Len(tasks)))
    /\ UNCHANGED <<numWorkers, prefix>>
    /\ runPc' = IF runPc = "parked" THEN "stop" ELSE runPc
    /\ UNCHANGED <<exited, tickerOn, tickBuf, ticksFired, ticksDropped, ptPc, db,
                   metrics, fetchCalls>>
    /\ UNCHANGED <<cycleVars, workerVars, logVars>>

\* the ticker fires: the tick goes to a Run waiting in its select, else into
\* ticker.C, else (ticker.C full) it is dropped
Tick ==
    /\ ~exited
    /\ UNCHANGED provVars
    /\ tickerOn
    /\ ticksFired < MaxTicks
    /\ ticksFired' = ticksFired + 1
    /\ IF runPc = "parked"
       THEN /\ runPc' = "tick"
            /\ UNCHANGED <<tickBuf, ticksDropped>>
       ELSE IF tickBuf < TickerCap
       THEN /\ tickBuf' = tickBuf + 1
            /\ UNCHANGED <<runPc, ticksDropped>>
       ELSE /\ ticksDropped' = ticksDropped + 1
            /\ UNCHANGED <<runPc, tickBuf>>
    /\ UNCHANGED <<cancelled, exited, tickerOn, cancelledEarly, cancelledInBatch, numWorkers, prefix, ptPc, db, metrics, fetchCalls>>
    /\ UNCHANGED <<cycleVars, workerVars, logVars>>

\* ------------------------------------------------------------------- Run
RunStart ==
    /\ ~exited
    /\ UNCHANGED provVars
    /\ runPc = "start"
    /\ tickerOn' = TRUE
    /\ runPc' = "select"
    /\ UNCHANGED <<cancelled, exited, tickBuf, ticksFired, ticksDropped, cancelledEarly, cancelledInBatch, numWorkers, prefix,
                   ptPc, db, metrics, fetchCalls>>
    /\ UNCHANGED <<cycleVars, workerVars, logVars>>

\* select { case <-ctx.Done(): ...; case <-ticker.C: ... }: one of the ready
\* cases is chosen; with none ready Run waits for the first of the two
RunSelect ==
    /\ ~exited
    /\ UNCHANGED provVars
    /\ runPc = "select"
    /\ \/ /\ cancelled
          /\ runPc' = "stop"
          /\ UNCHANGED tickBuf
       \/ /\ tickBuf > 0
          /\ tickBuf' = tickBuf - 1
          /\ runPc' = "tick"
       \/ /\ ~cancelled
          /\ tickBuf = 0
          /\ runPc' = "parked"
          /\ UNCHANGED tickBuf
    /\ UNCHANGED <<cancelled, exited, tickerOn, ticksFired, ticksDropped, cancelledEarly, cancelledInBatch, numWorkers, prefix,
                   ptPc, db, metrics, fetchCalls>>
    /\ UNCHANGED <<cycleVars, workerVars, logVars>>

\* case <-ctx.Done(): return (the deferred ticker.Stop runs)
RunStop ==
    /\ ~exited
    /\ UNCHANGED provVars
    /\ runPc = "stop"
    /\ runPc' = "done"
    /\ tickerOn' = FALSE
    /\ UNCHANGED <<cancelled, exited, tickBuf, ticksFired, ticksDropped, cancelledEarly, cancelledInBatch, numWorkers, prefix,
                   ptPc, db, metrics, fetchCalls>>
    /\ UNCHANGED <<cycleVars, workerVars, logVars>>

\* case <-ticker.C: go gs.processTask(ctx): the cycle is started and the loop
\* goes straight back to its select
RunPollAsync ==
    /\ ~exited
    /\ UNCHANGED provVars
    /\ runPc = "tick"
    /\ runPc' = "select"
    /\ ptPc' = "fetch"
    /\ tasks' = <<>>
    /\ pushed' = 0
    /\ jobs' = <<>>
    /\ jobsCap' = 0
    /\ jobsClosed' = FALSE
    /\ lastFetch' = "none"
    /\ spawned' = 0
    /\ recvLog' = [t \in TaskIds |-> 0]
    /\ UNCHANGED totals
    /\ geocodeLog' = EmptyLog
    /\ writeLog' = EmptyLog
    /\ UNCHANGED <<envVars, exited, wg, db, metrics, fetchCalls>>
    /\ UNCHANGED workerVars

\* case <-ticker.C: gs.processTask(ctx) is entered
RunPoll ==
    /\ ~exited
    /\ UNCHANGED provVars
    /\ runPc = "tick"
    /\ runPc' = "cycle"
    /\ ptPc' = "fetch"
    /\ tasks' = <<>>
    /\ pushed' = 0
    /\ jobs' = <<>>
    /\ jobsCap' = 0
    /\ jobsClosed' = FALSE
    /\ lastFetch' = "none"
    /\ spawned' = 0
    /\ recvLog' = [t \in TaskIds |-> 0]
    /\ UNCHANGED totals
    /\ geocodeLog' = EmptyLog
    /\ writeLog' = EmptyLog
    /\ UNCHANGED <<envVars, exited, wg, db, metrics, fetchCalls>>
    /\ UNCHANGED workerVars

\* ----------------------------------------------------------- processTask
\* the fetch without the return in `if err != nil`: the nil batch goes on to
\* the worker pool
PtFetchNoErrReturn ==
    /\ ~exited
    /\ UNCHANGED provVars
    /\ ptPc = "fetch"
    /\ fetchCalls' = fetchCalls + 1
    /\ \/ /\ lastFetch' = "error"
          /\ tasks' = <<>>
          /\ ptPc' = "spawn"
          /\ runPc' = runPc
       \/ LET rows == FetchTasksForGeocoding(db, taskLimit) IN
          /\ tasks' = rows
          /\ IF Len(rows) = 0
             THEN /\ lastFetch' = "empty"
                  /\ ptPc' = "idle"
                  /\ runPc' = "select"
             ELSE /\ lastFetch' = "batch"
                  /\ ptPc' = "spawn"
                  /\ runPc' = runPc
    /\ UNCHANGED <<envVars, exited, pushed, jobs, jobsCap, jobsClosed, wg, spawned,
                   db, metrics>>
    /\ UNCHANGED <<workerVars, logVars>>

\* the fetch without the `if len(tasks) == 0` return: an empty batch goes on to
\* the worker pool
PtFetchNoEmptyReturn ==
    /\ ~exited
    /\ UNCHANGED provVars
    /\ ptPc = "fetch"
    /\ fetchCalls' = fetchCalls + 1
    /\ \/ /\ lastFetch' = "error"
          /\ tasks' = <<>>
          /\ ptPc' = "idle"
          /\ runPc' = "select"
       \/ LET rows == FetchTasksForGeocoding(db, taskLimit) IN
          /\ tasks' = rows
          /\ lastFetch' = IF Len(rows) = 0 THEN "empty" ELSE "batch"
          /\ ptPc' = "spawn"
          /\ runPc' = runPc
    /\ UNCHANGED <<envVars, exited, pushed, jobs, jobsCap, jobsClosed, wg, spawned,
                   db, metrics>>
    /\ UNCHANGED <<workerVars, logVars>>

\* tasks, err := gs.repo.FetchTasksForGeocoding(ctx, taskLimit), and the two
\* early returns
PtFetch ==
    /\ ~exited
    /\ UNCHANGED provVars
    /\ ptPc = "fetch"
    /\ fetchCalls' = fetchCalls + 1
    /\ \/ /\ lastFetch' = "error"
          /\ tasks' = <<>>
          /\ ptPc' = "idle"
          /\ runPc' = "select"
       \/ LET rows == FetchTasksForGeocoding(db, taskLimit) IN
          /\ tasks' = rows
          /\ IF Len(rows) = 0
             THEN /\ lastFetch' = "empty"
                  /\ ptPc' = "idle"
                  /\ runPc' = "select"
             ELSE /\ lastFetch' = "batch"
                  /\ ptPc' = "spawn"
                  /\ runPc' = runPc
    /\ UNCHANGED <<envVars, exited, pushed, jobs, jobsCap, jobsClosed, wg, spawned,
                   db, metrics>>
    /\ UNCHANGED <<workerVars, logVars>>

\* how many times the body of `for i := 1; i <= n; i++` runs
Started(n) == IF n > 0 THEN n ELSE 0

\* a pool sized to the batch: no more workers than there are tasks
PtSpawnPerTask ==
    /\ ~exited
    /\ UNCHANGED provVars
    /\ ptPc = "spawn"
    /\ jobsCap' = Len(tasks)
    /\ wg' = wg + MinOf({Started(numWorkers), Len(tasks)})
    /\ spawned' = spawned + MinOf({Started(numWorkers), Len(tasks)})
    /\ wPc' = [w \in Workers |->
                IF w <= MinOf({numWorkers, Len(tasks)}) THEN "recv" ELSE "none"]
    /\ ptPc' = "push"
    /\ UNCHANGED <<envVars, exited, runPc, tasks, pushed, jobs, jobsClosed, lastFetch,
                   wTask, wRes, db, metrics, fetchCalls>>
    /\ UNCHANGED logVars

\* a pool that registers its workers with one wgr.Add(gs.numWorkers)
PtSpawnAddsCount ==
    /\ ~exited
    /\ UNCHANGED provVars
    /\ ptPc = "spawn"
    /\ jobsCap' = Len(tasks)
    /\ wg' = wg + numWorkers
    /\ spawned' = spawned + Started(numWorkers)
    /\ wPc' = [w \in Workers |-> IF w <= numWorkers THEN "recv" ELSE "none"]
    /\ ptPc' = "push"
    /\ UNCHANGED <<envVars, exited, runPc, tasks, pushed, jobs, jobsClosed, lastFetch,
                   wTask, wRes, db, metrics, fetchCalls>>
    /\ UNCHANGED logVars

\* jobs := make(chan models.Task, len(tasks)); for i := 1; i <= gs.numWorkers; i++
\* { wgr.Add(1); go gs.worker(...) }: every worker goroutine starts at its receive
PtSpawn ==
    /\ ~exited
    /\ UNCHANGED provVars
    /\ ptPc = "spawn"
    /\ jobsCap' = Len(tasks)
    /\ wg' = wg + Started(numWorkers)
    /\ spawned' = spawned + Started(numWorkers)
    /\ wPc' = [w \in Workers |-> IF w <= numWorkers THEN "recv" ELSE "none"]
    /\ ptPc' = "push"
    /\ UNCHANGED <<envVars, exited, runPc, tasks, pushed, jobs, jobsClosed, lastFetch,
                   wTask, wRes, db, metrics, fetchCalls>>
    /\ UNCHANGED logVars

\* for _, task := range tasks { jobs <- task }: one send
PtPush ==
    /\ ~exited
    /\ UNCHANGED provVars
    /\ ptPc = "push"
    /\ pushed < Len(tasks)
    /\ Len(jobs) < jobsCap
    /\ ~jobsClosed
    /\ jobs' = Append(jobs, tasks[pushed + 1])
    /\ pushed' = pushed + 1
    /\ UNCHANGED <<envVars, exited, runPc, ptPc, tasks, jobsCap, jobsClosed, wg,
                   lastFetch, spawned, db, metrics, fetchCalls>>
    /\ UNCHANGED <<workerVars, logVars>>

\* the producer going on to wgr.Wait() without close(jobs)
PtCloseForgotten ==
    /\ ~exited
    /\ UNCHANGED provVars
    /\ ptPc = "push"
    /\ pushed = Len(tasks)
    /\ ptPc' = "wait"
    /\ UNCHANGED <<envVars, exited, runPc, tasks, pushed, jobs, jobsCap, jobsClosed, wg,
                   lastFetch, spawned, db, metrics, fetchCalls>>
    /\ UNCHANGED <<workerVars, logVars>>

\* close(jobs), after the last send
PtClose ==
    /\ ~exited
    /\ UNCHANGED provVars
    /\ ptPc = "push"
    /\ pushed = Len(tasks)
    /\ jobsClosed' = TRUE
    /\ ptPc' = "wait"
    /\ UNCHANGED <<envVars, exited, runPc, tasks, pushed, jobs, jobsCap, wg, lastFetch,
                   spawned, db, metrics, fetchCalls>>
    /\ UNCHANGED <<workerVars, logVars>>

\* wgr.Wait() left out: processTask returns without joining the workers
WaitReturnsEarly == TRUE

\* wgr.Wait() returns when the counter is zero
WaitReturns == wg = 0

\* wgr.Wait(); processTask returns to Run's loop
PtWait ==
    /\ ~exited
    /\ UNCHANGED provVars
    /\ ptPc = "wait"
    /\ WaitReturns
    /\ ptPc' = "idle"
    /\ runPc' = "select"
    /\ UNCHANGED <<envVars, exited, db, metrics, fetchCalls>>
    /\ UNCHANGED <<cycleVars, workerVars, logVars>>

\* ---------------------------------------------------------------- worker
\* a receive that leaves the task in the channel
WRecvPeek(w) ==
    /\ ~exited
    /\ UNCHANGED provVars
    /\ wPc[w] = "recv"
    /\ Len(jobs) > 0
    /\ LET task == Head(jobs) IN
       /\ wTask' = [wTask EXCEPT ![w] = task]
       /\ recvLog' = [recvLog EXCEPT ![task] = @ + 1]
       /\ totals' = [totals EXCEPT !.taken = @ + 1]
    /\ metrics' = [metrics EXCEPT !.active = @ + 1]
    /\ wPc' = [wPc EXCEPT ![w] = "geocode"]
    /\ UNCHANGED <<envVars, exited, runPc, ptPc, tasks, pushed, jobs, jobsCap, jobsClosed,
                   wg, lastFetch, spawned, wRes, db, fetchCalls, geocodeLog, writeLog>>

\* a receive loop that selects on ctx.Done() and returns once the context is
\* cancelled, leaving the queued tasks behind
WRecvStopsOnCancel(w) ==
    /\ ~exited
    /\ UNCHANGED provVars
    /\ wPc[w] = "recv"
    /\ IF cancelled
       THEN /\ wg' = wg - 1
            /\ wPc' = [wPc EXCEPT ![w] = "exited"]
            /\ UNCHANGED <<jobs, wTask, metrics, recvLog, totals>>
       ELSE /\ Len(jobs) > 0
            /\ jobs' = Tail(jobs)
            /\ wTask' = [wTask EXCEPT ![w] = Head(jobs)]
            /\ recvLog' = [recvLog EXCEPT ![Head(jobs)] = @ + 1]
            /\ totals' = [totals EXCEPT !.taken = @ + 1]
            /\ metrics' = [metrics EXCEPT !.active = @ + 1]
            /\ wPc' = [wPc EXCEPT ![w] = "geocode"]
            /\ UNCHANGED wg
    /\ UNCHANGED <<envVars, exited, runPc, ptPc, tasks, pushed, jobsCap, jobsClosed,
                   lastFetch, spawned, wRes, db, fetchCalls, geocodeLog, writeLog>>

\* a receive that takes the task sent last
WRecvFromBack(w) ==
    /\ ~exited
    /\ UNCHANGED provVars
    /\ wPc[w] = "recv"
    /\ Len(jobs) > 0
    /\ LET task == jobs[Len(jobs)] IN
       /\ jobs' = SubSeq(jobs, 1, Len(jobs) - 1)
       /\ wTask' = [wTask EXCEPT ![w] = task]
       /\ recvLog' = [recvLog EXCEPT ![task] = @ + 1]
       /\ totals' = [totals EXCEPT !.taken = @ + 1]
    /\ metrics' = [metrics EXCEPT !.active = @ + 1]
    /\ wPc' = [wPc EXCEPT ![w] = "geocode"]
    /\ UNCHANGED <<envVars, exited, runPc, ptPc, tasks, pushed, jobsCap, jobsClosed, wg,
                   lastFetch, spawned, wRes, db, fetchCalls, geocodeLog, writeLog>>

\* for task := range jobs: a task is received; ActiveWorkers.Inc(); the
\* prefix is put before the address; provider.Geocode is called
WRecv(w) ==
    /\ ~exited
    /\ UNCHANGED provVars
    /\ wPc[w] = "recv"
    /\ Len(jobs) > 0
    /\ LET task == Head(jobs) IN
       /\ jobs' = Tail(jobs)
       /\ wTask' = [wTask EXCEPT ![w] = task]
       /\ recvLog' = [recvLog EXCEPT ![task] = @ + 1]
       /\ totals' = [totals EXCEPT !.taken = @ + 1]
    /\ metrics' = [metrics EXCEPT !.active = @ + 1]
    /\ wPc' = [wPc EXCEPT ![w] = "geocode"]
    /\ UNCHANGED <<envVars, exited, runPc, ptPc, tasks, pushed, jobsCap, jobsClosed, wg,
                   lastFetch, spawned, wRes, db, fetchCalls, geocodeLog, writeLog>>

\* for task := range jobs ends: jobs is closed and drained; deferred wg.Done()
WExit(w) ==
    /\ ~exited
    /\ UNCHANGED provVars
    /\ wPc[w] = "recv"
    /\ Len(jobs) = 0
    /\ jobsClosed
    /\ wg' = wg - 1
    /\ wPc' = [wPc EXCEPT ![w] = "exited"]
    /\ UNCHANGED <<envVars, exited, runPc, ptPc, tasks, pushed, jobs, jobsCap,
                   jobsClosed, lastFetch, spawned, wTask, wRes, db, metrics, fetchCalls>>
    /\ UNCHANGED logVars

\* provider.Geocode returns and the worker goes on without RequestDuration.Observe
WGeocodeNoObserve(w) ==
    /\ ~exited
    /\ UNCHANGED provVars
    /\ wPc[w] = "geocode"
    /\ \E res \in GeocodeResults(prefix \o Address(wTask[w])) :
        /\ wRes' = [wRes EXCEPT ![w] = res]
        /\ geocodeLog' = [geocodeLog EXCEPT ![wTask[w]] =
                Append(@, [address |-> prefix \o Address(wTask[w]), res |-> res])]
    /\ totals' = [totals EXCEPT !.calls = @ + 1]
    /\ wPc' = [wPc EXCEPT ![w] = "branch"]
    /\ UNCHANGED <<envVars, exited, runPc, ptPc, wTask, db, metrics, fetchCalls, recvLog,
                   writeLog>>
    /\ UNCHANGED cycleVars

\* a worker that joins the prefix and the address with a space
WGeocodeWithSeparator(w) ==
    /\ ~exited
    /\ UNCHANGED provVars
    /\ wPc[w] = "geocode"
    /\ \E res \in GeocodeResults(prefix \o " " \o Address(wTask[w])) :
        /\ wRes' = [wRes EXCEPT ![w] = res]
        /\ geocodeLog' = [geocodeLog EXCEPT ![wTask[w]] =
                Append(@, [address |-> prefix \o " " \o Address(wTask[w]), res |-> res])]
    /\ totals' = [totals EXCEPT !.calls = @ + 1]
    /\ metrics' = [metrics EXCEPT !.observed = @ + 1]
    /\ wPc' = [wPc EXCEPT ![w] = "branch"]
    /\ UNCHANGED <<envVars, exited, runPc, ptPc, wTask, db, fetchCalls, recvLog, writeLog>>
    /\ UNCHANGED cycleVars

\* provider.Geocode(ctx, task.Address) returns; the duration is observed
WGeocode(w) ==
    /\ ~exited
    /\ UNCHANGED provVars
    /\ wPc[w] = "geocode"
    /\ \E res \in GeocodeResults(prefix \o Address(wTask[w])) :
        /\ wRes' = [wRes EXCEPT ![w] = res]
        /\ geocodeLog' = [geocodeLog EXCEPT ![wTask[w]] =
                Append(@, [address |-> prefix \o Address(wTask[w]), res |-> res])]
    /\ totals' = [totals EXCEPT !.calls = @ + 1]
    /\ metrics' = [metrics EXCEPT !.observed = @ + 1]
    /\ wPc' = [wPc EXCEPT ![w] = "branch"]
    /\ UNCHANGED <<envVars, exited, runPc, ptPc, wTask, db, fetchCalls, recvLog, writeLog>>
    /\ UNCHANGED cycleVars

\* the failure path without its repository call
WFailureNoWrite(w) ==
    /\ ~exited
    /\ UNCHANGED provVars
    /\ wPc[w] = "branch"
    /\ ~wRes[w].ok
    /\ metrics' = [metrics EXCEPT !.failure = @ + 1, !.apiErrors = @ + 1, !.active = @ - 1]
    /\ wPc' = [wPc EXCEPT ![w] = "recv"]
    /\ wTask' = [wTask EXCEPT ![w] = NoTask]
    /\ wRes' = [wRes EXCEPT ![w] = NoResult]
    /\ UNCHANGED <<envVars, exited, runPc, ptPc, db, fetchCalls>>
    /\ UNCHANGED <<cycleVars, logVars>>

\* the failure path going back to provider.Geocode with the same task instead
\* of `continue`
WFailureRetries(w) ==
    /\ ~exited
    /\ UNCHANGED provVars
    /\ wPc[w] = "branch"
    /\ ~wRes[w].ok
    /\ \E stored \in BOOLEAN :
        /\ db' = IF stored THEN IncrementFailureCount(db, wTask[w], wRes[w].val) ELSE db
        /\ writeLog' = [writeLog EXCEPT ![wTask[w]] =
                Append(@, [op |-> "increment", arg |-> wRes[w].val, ok |-> stored])]
    /\ metrics' = [metrics EXCEPT !.failure = @ + 1, !.apiErrors = @ + 1]
    /\ IF Len(geocodeLog[wTask[w]]) < 2
       THEN /\ wPc' = [wPc EXCEPT ![w] = "geocode"]
            /\ UNCHANGED <<wTask, wRes>>
       ELSE /\ wPc' = [wPc EXCEPT ![w] = "recv"]
            /\ wTask' = [wTask EXCEPT ![w] = NoTask]
            /\ wRes' = [wRes EXCEPT ![w] = NoResult]
    /\ UNCHANGED <<envVars, exited, runPc, ptPc, fetchCalls, recvLog, geocodeLog, totals>>
    /\ UNCHANGED cycleVars

\* the failure path that continues without ActiveWorkers.Dec()
WFailureNoDec(w) ==
    /\ ~exited
    /\ UNCHANGED provVars
    /\ wPc[w] = "branch"
    /\ ~wRes[w].ok
    /\ \E stored \in BOOLEAN :
        /\ db' = IF stored THEN IncrementFailureCount(db, wTask[w], wRes[w].val) ELSE db
        /\ writeLog' = [writeLog EXCEPT ![wTask[w]] =
                Append(@, [op |-> "increment", arg |-> wRes[w].val, ok |-> stored])]
    /\ metrics' = [metrics EXCEPT !.failure = @ + 1, !.apiErrors = @ + 1]
    /\ wPc' = [wPc EXCEPT ![w] = "recv"]
    /\ wTask' = [wTask EXCEPT ![w] = NoTask]
    /\ wRes' = [wRes EXCEPT ![w] = NoResult]
    /\ UNCHANGED <<envVars, exited, runPc, ptPc, fetchCalls, recvLog, geocodeLog, totals>>
    /\ UNCHANGED cycleVars

\* the failure path without APIErrors.Inc()
WFailureNoAPIError(w) ==
    /\ ~exited
    /\ UNCHANGED provVars
    /\ wPc[w] = "branch"
    /\ ~wRes[w].ok
    /\ \E stored \in BOOLEAN :
        /\ db' = IF stored THEN IncrementFailureCount(db, wTask[w], wRes[w].val) ELSE db
        /\ writeLog' = [writeLog EXCEPT ![wTask[w]] =
                Append(@, [op |-> "increment", arg |-> wRes[w].val, ok |-> stored])]
    /\ metrics' = [metrics EXCEPT !.failure = @ + 1, !.active = @ - 1]
    /\ wPc' = [wPc EXCEPT ![w] = "recv"]
    /\ wTask' = [wTask EXCEPT ![w] = NoTask]
    /\ wRes' = [wRes EXCEPT ![w] = NoResult]
    /\ UNCHANGED <<envVars, exited, runPc, ptPc, fetchCalls, recvLog, geocodeLog, totals>>
    /\ UNCHANGED cycleVars

\* if err != nil { ... IncrementFailureCount ...; ActiveWorkers.Dec(); continue }
WFailure(w) ==
    /\ ~exited
    /\ UNCHANGED provVars
    /\ wPc[w] = "branch"
    /\ ~wRes[w].ok
    /\ \E stored \in BOOLEAN :
        /\ db' = IF stored THEN IncrementFailureCount(db, wTask[w], wRes[w].val) ELSE db
        /\ writeLog' = [writeLog EXCEPT ![wTask[w]] =
                Append(@, [op |-> "increment", arg |-> wRes[w].val, ok |-> stored])]
    /\ metrics' = [metrics EXCEPT !.failure = @ + 1, !.apiErrors = @ + 1, !.active = @ - 1]
    /\ wPc' = [wPc EXCEPT ![w] = "recv"]
    /\ wTask' = [wTask EXCEPT ![w] = NoTask]
    /\ wRes' = [wRes EXCEPT ![w] = NoResult]
    /\ UNCHANGED <<envVars, exited, runPc, ptPc, fetchCalls, recvLog, geocodeLog, totals>>
    /\ UNCHANGED cycleVars

\* the success path returning from worker when UpdateTaskCoordinates fails
WSuccessReturnsOnError(w) ==
    /\ ~exited
    /\ UNCHANGED provVars
    /\ wPc[w] = "branch"
    /\ wRes[w].ok
    /\ \E stored \in BOOLEAN :
        /\ db' = IF stored THEN UpdateTaskCoordinates(db, wTask[w], wRes[w].val) ELSE db
        /\ writeLog' = [writeLog EXCEPT ![wTask[w]] =
                Append(@, [op |-> "update", arg |-> wRes[w].val, ok |-> stored])]
        /\ wPc' = [wPc EXCEPT ![w] = IF stored THEN "recv" ELSE "exited"]
        /\ wg' = IF stored THEN wg ELSE wg - 1
    /\ metrics' = [metrics EXCEPT !.success = @ + 1, !.active = @ - 1]
    /\ wTask' = [wTask EXCEPT ![w] = NoTask]
    /\ wRes' = [wRes EXCEPT ![w] = NoResult]
    /\ UNCHANGED <<envVars, exited, runPc, ptPc, fetchCalls, recvLog, geocodeLog, totals>>
    /\ UNCHANGED <<tasks, pushed, jobs, jobsCap, jobsClosed, lastFetch, spawned>>

\* the success path passing the zero Coordinates instead of *coords
WSuccessZeroCoords(w) ==
    /\ ~exited
    /\ UNCHANGED provVars
    /\ wPc[w] = "branch"
    /\ wRes[w].ok
    /\ \E stored \in BOOLEAN :
        /\ db' = IF stored THEN UpdateTaskCoordinates(db, wTask[w], "@") ELSE db
        /\ writeLog' = [writeLog EXCEPT ![wTask[w]] =
                Append(@, [op |-> "update", arg |-> "@", ok |-> stored])]
    /\ metrics' = [metrics EXCEPT !.success = @ + 1, !.active = @ - 1]
    /\ wPc' = [wPc EXCEPT ![w] = "recv"]
    /\ wTask' = [wTask EXCEPT ![w] = NoTask]
    /\ wRes' = [wRes EXCEPT ![w] = NoResult]
    /\ UNCHANGED <<envVars, exited, runPc, ptPc, fetchCalls, recvLog, geocodeLog, totals>>
    /\ UNCHANGED cycleVars

\* a success path that counts the task after the update, as a success when
\* the update was stored and as a failure when it was not
WSuccessCountsAfterUpdate(w) ==
    /\ ~exited
    /\ UNCHANGED provVars
    /\ wPc[w] = "branch"
    /\ wRes[w].ok
    /\ \E stored \in BOOLEAN :
        /\ db' = IF stored THEN UpdateTaskCoordinates(db, wTask[w], wRes[w].val) ELSE db
        /\ writeLog' = [writeLog EXCEPT ![wTask[w]] =
                Append(@, [op |-> "update", arg |-> wRes[w].val, ok |-> stored])]
        /\ metrics' = IF stored
                      THEN [metrics EXCEPT !.success = @ + 1, !.active = @ - 1]
                      ELSE [metrics EXCEPT !.failure = @ + 1, !.active = @ - 1]
    /\ wPc' = [wPc EXCEPT ![w] = "recv"]
    /\ wTask' = [wTask EXCEPT ![w] = NoTask]
    /\ wRes' = [wRes EXCEPT ![w] = NoResult]
    /\ UNCHANGED <<envVars, exited, runPc, ptPc, fetchCalls, recvLog, geocodeLog, totals>>
    /\ UNCHANGED cycleVars

\* a success path that records a failed attempt when the update is refused
WSuccessCountsAttempt(w) ==
    /\ ~exited
    /\ UNCHANGED provVars
    /\ wPc[w] = "branch"
    /\ wRes[w].ok
    /\ \E stored \in BOOLEAN :
        /\ db' = IF stored THEN UpdateTaskCoordinates(db, wTask[w], wRes[w].val)
                 ELSE IncrementFailureCount(db, wTask[w], "update failed")
        /\ writeLog' = [writeLog EXCEPT ![wTask[w]] =
                Append(@, [op |-> "update", arg |-> wRes[w].val, ok |-> stored])]
    /\ metrics' = [metrics EXCEPT !.success = @ + 1, !.active = @ - 1]
    /\ wPc' = [wPc EXCEPT ![w] = "recv"]
    /\ wTask' = [wTask EXCEPT ![w] = NoTask]
    /\ wRes' = [wRes EXCEPT ![w] = NoResult]
    /\ UNCHANGED <<envVars, exited, runPc, ptPc, fetchCalls, recvLog, geocodeLog, totals>>
    /\ UNCHANGED cycleVars

\* the success path: UpdateTaskCoordinates; ActiveWorkers.Dec()
WSuccess(w) ==
    /\ ~exited
    /\ UNCHANGED provVars
    /\ wPc[w] = "branch"
    /\ wRes[w].ok
    /\ \E stored \in BOOLEAN :
        /\ db' = IF stored THEN UpdateTaskCoordinates(db, wTask[w], wRes[w].val) ELSE db
        /\ writeLog' = [writeLog EXCEPT ![wTask[w]] =
                Append(@, [op |-> "update", arg |-> wRes[w].val, ok |-> stored])]
    /\ metrics' = [metrics EXCEPT !.success = @ + 1, !.active = @ - 1]
    /\ wPc' = [wPc EXCEPT ![w] = "recv"]
    /\ wTask' = [wTask EXCEPT ![w] = NoTask]
    /\ wRes' = [wRes EXCEPT ![w] = NoResult]
    /\ UNCHANGED <<envVars, exited, runPc, ptPc, fetchCalls, recvLog, geocodeLog, totals>>
    /\ UNCHANGED cycleVars

Next ==
    \/ Cancel
    \/ Tick
    \/ RunStart
    \/ RunSelect
    \/ RunStop
    \/ RunPoll
    \/ PtFetch
    \/ PtSpawn
    \/ PtPush
    \/ PtClose
    \/ PtWait
    \/ \E w \in Workers : WRecv(w)
    \/ \E w \in Workers : WExit(w)
    \/ \E w \in Workers : WGeocode(w)
    \/ \E w \in Workers : WFailure(w)
    \/ \E w \in Workers : WSuccess(w)

Spec == Init /\ [][Next]_vars
\* main: go geoService.Run(ctx); <-ctx.Done(); return. The process ends with
\* main, whatever Run and the workers are doing.
MainExit ==
    /\ ~exited
    /\ UNCHANGED provVars
    /\ cancelled
    /\ exited' = TRUE
    /\ UNCHANGED <<envVars, runPc, ptPc, db, metrics, fetchCalls>>
    /\ UNCHANGED <<cycleVars, workerVars, logVars>>

ProcNext ==
    \/ Next
    \/ MainExit

\* the service with any worker count, zero and negative included
WorkersSpec == InitAnyWorkers /\ [][Next]_vars

\* the goroutines of a cycle keep running: the Go scheduler runs every
\* runnable goroutine, and every repository and provider call returns
CycleFairness ==
    /\ WF_vars(PtFetch) /\ WF_vars(PtSpawn) /\ WF_vars(PtPush)
    /\ WF_vars(PtClose) /\ WF_vars(PtWait)
    /\ \A w \in Workers :
        /\ WF_vars(WRecv(w)) /\ WF_vars(WExit(w)) /\ WF_vars(WGeocode(w))
        /\ WF_vars(WFailure(w)) /\ WF_vars(WSuccess(w))

\* the service with any worker count, its cycles running to their end
FairWorkersSpec == WorkersSpec /\ CycleFairness

\* the service with or without an address prefix
PrefixSpec == InitAnyPrefix /\ [][Next]_vars

\* the service started on a database whose tasks are near the attempt limit
BacklogSpec == InitBacklog /\ [][Next]_vars

\* ------------------------------------- the service kept running
\* the batch limit scaled to the modelled backlog: NumTasks pending tasks are
\* more than one batch, as more than taskLimit tasks are in the program
ScaledTaskLimit == NumTasks - 1

\* a counter that stops counting at MaxTicks
Saturated(n) == IF n < MaxTicks THEN n + 1 ELSE n

InitSteady ==
    /\ prefix = addresPrefix
    /\ numWorkers \in WorkerCounts
    /\ db \in {FreshTasks, BacklogTasks}
    /\ InitOther

\* the ticker fires, for as long as the ticker runs: Tick without an end
SteadyTick ==
    /\ ~exited
    /\ UNCHANGED provVars
    /\ tickerOn
    /\ ticksFired' = Saturated(ticksFired)
    /\ IF runPc = "parked"
       THEN /\ runPc' = "tick"
            /\ UNCHANGED <<tickBuf, ticksDropped>>
       ELSE IF tickBuf < TickerCap
       THEN /\ tickBuf' = tickBuf + 1
            /\ UNCHANGED <<runPc, ticksDropped>>
       ELSE /\ ticksDropped' = Saturated(ticksDropped)
            /\ UNCHANGED <<runPc, tickBuf>>
    /\ UNCHANGED <<cancelled, exited, tickerOn, cancelledEarly, cancelledInBatch, numWorkers,
                   prefix, ptPc, db, metrics, fetchCalls>>
    /\ UNCHANGED <<cycleVars, workerVars, logVars>>

\* the fetch of a repository that answers every query, with the scaled limit
SteadyFetch ==
    /\ ~exited
    /\ UNCHANGED provVars
    /\ ptPc = "fetch"
    /\ fetchCalls' = Saturated(fetchCalls)
    /\ LET rows == FetchTasksForGeocoding(db, ScaledTaskLimit) IN
          /\ tasks' = rows
          /\ IF Len(rows) = 0
             THEN /\ lastFetch' = "empty"
                  /\ ptPc' = "idle"
                  /\ runPc' = "select"
             ELSE /\ lastFetch' = "batch"
                  /\ ptPc' = "spawn"
                  /\ runPc' = runPc
    /\ UNCHANGED <<envVars, exited, pushed, jobs, jobsCap, jobsClosed, wg, spawned,
                   db, metrics>>
    /\ UNCHANGED <<workerVars, logVars>>

\* the repository accepted the write this step made for the worker's task
Accepted(w) == writeLog'[wTask[w]][Len(writeLog'[wTask[w]])].ok

SteadyFailure(w) == WFailure(w) /\ Accepted(w)
SteadySuccess(w) == WSuccess(w) /\ Accepted(w)

\* the service while no shutdown is signalled and the repository is healthy
SteadyNext ==
    \/ SteadyTick
    \/ RunStart
    \/ RunSelect
    \/ RunPoll
    \/ SteadyFetch
    \/ PtSpawn
    \/ PtPush
    \/ PtClose
    \/ PtWait
    \/ \E w \in Workers : WRecv(w)
    \/ \E w \in Workers : WExit(w)
    \/ \E w \in Workers : WGeocode(w)
    \/ \E w \in Workers : SteadyFailure(w)
    \/ \E w \in Workers : SteadySuccess(w)

\* the ticker keeps firing, Run and the goroutines of a cycle keep running,
\* every repository and provider call returns
SteadyFairness ==
    /\ WF_vars(SteadyTick) /\ WF_vars(RunStart) /\ WF_vars(RunSelect) /\ WF_vars(RunPoll)
    /\ WF_vars(SteadyFetch) /\ WF_vars(PtSpawn) /\ WF_vars(PtPush)
    /\ WF_vars(PtClose) /\ WF_vars(PtWait)
    /\ \A w \in Workers :
        /\ WF_vars(WRecv(w)) /\ WF_vars(WExit(w)) /\ WF_vars(WGeocode(w))
        /\ WF_vars(SteadyFailure(w)) /\ WF_vars(SteadySuccess(w))

\* the service, with any worker count, running without end against a healthy
\* repository holding more pending tasks than one batch takes
SteadySpec == InitSteady /\ [][SteadyNext]_vars /\ SteadyFairness

\* the whole process: the service started by main
ProcSpec == Init /\ [][ProcNext]_vars

\* ------------------------------------- NominatimProvider: one request
Digits == {"0", "1", "2", "3", "4", "5", "6", "7", "8", "9"}

\* how many characters of s from position i on are in C
RunLen(s, i, C) ==
    LET stop == {j \in i..Len(s) : s[j] \notin C} IN
    IF stop = {} THEN Len(s) - i + 1 ELSE MinOf(stop) - i

\* fmt.Sscanf(text, "%f", &v): leading spaces are skipped, the longest prefix
\* sign digits [. digits] is the token, the rest of the text is left unread;
\* the scan fails when the token is not a number. val is the number scanned,
\* as its text. (No exponent, hex, nan or inf: no character of them occurs.)
Sscanf(text) ==
    LET start == 1 + RunLen(text, 1, {" "})
        sign == IF start <= Len(text) /\ text[start] \in {"+", "-"} THEN 1 ELSE 0
        d1 == RunLen(text, start + sign, Digits)
        dotAt == start + sign + d1
        dot == IF dotAt <= Len(text) /\ text[dotAt] = "." THEN 1 ELSE 0
        d2 == IF dot = 1 THEN RunLen(text, dotAt + 1, Digits) ELSE 0
    IN [ok |-> d1 + d2 > 0, val |-> SubSeq(text, start, dotAt + dot + d2 - 1)]

\* geocodeSingleAddress(ctx, address), given what client.Do returns for its
\* request: the request's q parameter and the (coords, err) returned
geocodeSingleAddress(address, resp) ==
    LET fail(e) == [q |-> address, coords |-> NilCoords, err |-> e] IN
    IF resp.err
    THEN fail([NilErr EXCEPT !.msg = "failed to execute geocoding request",
                             !.is = "client error"])
    ELSE IF resp.status # StatusOK
    THEN fail([NilErr EXCEPT !.msg = "nominatim API returned status",
                             !.status = resp.status, !.body = resp.body])
    ELSE IF ~resp.body.json
    THEN fail([NilErr EXCEPT !.msg = "failed to decode nominatim response",
                             !.is = "json error"])
    ELSE IF Len(resp.body.results) = 0
    THEN fail(ErrNominatimEmptyResponse)
    ELSE LET lat == Sscanf(resp.body.results[1].Lat)
             lon == Sscanf(resp.body.results[1].Lon)
         IN IF ~lat.ok
            THEN fail([ErrNominatimInvalidCoords EXCEPT
                          !.msg = "nominatim API returned invalid coordinates: invalid latitude",
                          !.text = resp.body.results[1].Lat])
            ELSE IF ~lon.ok
            THEN fail([ErrNominatimInvalidCoords EXCEPT
                          !.msg = "nominatim API returned invalid coordinates: invalid longitude",
                          !.text = resp.body.results[1].Lon])
            ELSE [q |-> address,
                  coords |-> [Latitude |-> lat.val, Longitude |-> lon.val],
                  err |-> NilErr]

\* Geocode with a generator that lacks the `if address == ""` case
NpStartNoEmptyCase ==
    /\ npPc = "idle"
    /\ \E address \in Addresses :
        /\ npAddress' = address
        /\ addressVariations' = IF address = <<>> THEN <<>>
                                ELSE generateAddressFallbacks(address)
    /\ idx' = 0
    /\ httpLog' = <<>>
    /\ npPc' = "loop"
    /\ UNCHANGED <<npRet, gpCall, fcCall>>
    /\ UNCHANGED <<svcVars, vpCall, cfgCall, mainCall>>

\* ------------------------------------- NominatimProvider.Geocode
\* Geocode(ctx, address) is called: the variations are generated
NpStart ==
    /\ npPc = "idle"
    /\ \E address \in Addresses :
        /\ npAddress' = address
        /\ addressVariations' = generateAddressFallbacks(address)
    /\ idx' = 0
    /\ httpLog' = <<>>
    /\ npPc' = "loop"
    /\ UNCHANGED <<npRet, gpCall, fcCall>>
    /\ UNCHANGED <<svcVars, vpCall, cfgCall, mainCall>>

\* a loop iteration that goes on to the next variation after a success
NpTryKeepsGoing ==
    /\ npPc = "loop"
    /\ idx < Len(addressVariations)
    /\ \E resp \in HTTPResponses :
        LET out == geocodeSingleAddress(addressVariations[idx + 1], resp) IN
        /\ httpLog' = Append(httpLog, [q |-> out.q, resp |-> resp, out |-> out])
        /\ IF out.err = NilErr
           THEN /\ npRet' = [coords |-> out.coords, err |-> NilErr]
                /\ npPc' = IF idx + 1 < Len(addressVariations) THEN "loop" ELSE "done"
                /\ idx' = idx + 1
           ELSE IF ~ErrorsIs(out.err, ErrNominatimEmptyResponse)
           THEN /\ npRet' = [coords |-> NilCoords, err |-> out.err]
                /\ npPc' = "done"
                /\ idx' = idx
           ELSE /\ idx' = idx + 1
                /\ UNCHANGED <<npRet, npPc>>
    /\ UNCHANGED <<npAddress, addressVariations, gpCall, fcCall>>
    /\ UNCHANGED <<svcVars, vpCall, cfgCall, mainCall>>

\* a loop iteration without the errors.Is test: every error is a soft miss
NpTryAllSoft ==
    /\ npPc = "loop"
    /\ idx < Len(addressVariations)
    /\ \E resp \in HTTPResponses :
        LET out == geocodeSingleAddress(addressVariations[idx + 1], resp) IN
        /\ httpLog' = Append(httpLog, [q |-> out.q, resp |-> resp, out |-> out])
        /\ IF out.err = NilErr
           THEN /\ npRet' = [coords |-> out.coords, err |-> NilErr]
                /\ npPc' = "done"
                /\ idx' = idx
           ELSE /\ idx' = idx + 1
                /\ UNCHANGED <<npRet, npPc>>
    /\ UNCHANGED <<npAddress, addressVariations, gpCall, fcCall>>
    /\ UNCHANGED <<svcVars, vpCall, cfgCall, mainCall>>

\* one iteration of `for idx, addrVariation := range addressVariations`: the
\* request for the variation is made; a success and a hard error return, the
\* empty-response error goes on to the next variation
NpTry ==
    /\ npPc = "loop"
    /\ idx < Len(addressVariations)
    /\ \E resp \in HTTPResponses :
        LET out == geocodeSingleAddress(addressVariations[idx + 1], resp) IN
        /\ httpLog' = Append(httpLog, [q |-> out.q, resp |-> resp, out |-> out])
        /\ IF out.err = NilErr
           THEN /\ npRet' = [coords |-> out.coords, err |-> NilErr]
                /\ npPc' = "done"
                /\ idx' = idx
           ELSE IF ~ErrorsIs(out.err, ErrNominatimEmptyResponse)
           THEN /\ npRet' = [coords |-> NilCoords, err |-> out.err]
                /\ npPc' = "done"
                /\ idx' = idx
           ELSE /\ idx' = idx + 1
                /\ UNCHANGED <<npRet, npPc>>
    /\ UNCHANGED <<npAddress, addressVariations, gpCall, fcCall>>
    /\ UNCHANGED <<svcVars, vpCall, cfgCall, mainCall>>

\* the return after the loop with the error of the last request
NpExhaustedLastError ==
    /\ npPc = "loop"
    /\ idx = Len(addressVariations)
    /\ npRet' = [coords |-> NilCoords,
                 err |-> [httpLog[Len(httpLog)].out.err EXCEPT
                             !.msg = "all address fallbacks exhausted", !.is = ""]]
    /\ npPc' = "done"
    /\ UNCHANGED <<npAddress, addressVariations, idx, httpLog, gpCall, fcCall>>
    /\ UNCHANGED <<svcVars, vpCall, cfgCall, mainCall>>

\* the loop is over, every variation was an empty response:
\* return nil, ErrNominatimEmptyResponse
NpExhausted ==
    /\ npPc = "loop"
    /\ idx = Len(addressVariations)
    /\ npRet' = [coords |-> NilCoords, err |-> ErrNominatimEmptyResponse]
    /\ npPc' = "done"
    /\ UNCHANGED <<npAddress, addressVariations, idx, httpLog, gpCall, fcCall>>
    /\ UNCHANGED <<svcVars, vpCall, cfgCall, mainCall>>

NominatimNext ==
    \/ NpStart
    \/ NpTry
    \/ NpExhausted

\* one NominatimProvider.Geocode call, for any address and any responses
NominatimSpec == Init /\ [][NominatimNext]_vars

\* the call keeps running: each outbound request returns and the goroutine
\* is scheduled
FairNominatimSpec ==
    NominatimSpec /\ WF_vars(NpStart) /\ WF_vars(NpTry) /\ WF_vars(NpExhausted)

\* ------------------------------------- GoogleProvider.Geocode
\* a float64 coordinate is written as its decimal text
LatLngs == [Lat : {<<"1">>, <<"2">>}, Lng : {<<"1">>, <<"2">>}]

\* what GoogleAPIClient.Geocode returns: an error, or a list of results
GoogleResponses ==
    {[err |-> TRUE, results |-> <<>>]}
    \cup [err : {FALSE}, results : UNION {[1..n -> LatLngs] : n \in 0..MaxResults}]

ErrEmptyResponse ==
    [NilErr EXCEPT !.msg = "get empty response from Google Maps API",
                   !.is = "ErrEmptyResponse"]

\* Geocode taking the last result of the list
GoogleGeocodeLast(address, resp) ==
    LET requests == <<[Address |-> address]>> IN
    IF resp.err
    THEN [requests |-> requests, coords |-> NilCoords,
          err |-> [NilErr EXCEPT !.msg = "failed to geocode address", !.is = "client error"]]
    ELSE IF Len(resp.results) = 0
    THEN [requests |-> requests, coords |-> NilCoords, err |-> ErrEmptyResponse]
    ELSE [requests |-> requests,
          coords |-> [Latitude |-> resp.results[Len(resp.results)].Lat,
                      Longitude |-> resp.results[Len(resp.results)].Lng],
          err |-> NilErr]

\* GoogleProvider.Geocode(ctx, address), given what the client returns: the
\* requests sent to the client and the (coords, err) returned
GoogleGeocode(address, resp) ==
    LET requests == <<[Address |-> address]>> IN
    IF resp.err
    THEN [requests |-> requests, coords |-> NilCoords,
          err |-> [NilErr EXCEPT !.msg = "failed to geocode address", !.is = "client error"]]
    ELSE IF Len(resp.results) = 0
    THEN [requests |-> requests, coords |-> NilCoords, err |-> ErrEmptyResponse]
    ELSE [requests |-> requests,
          coords |-> [Latitude |-> resp.results[1].Lat, Longitude |-> resp.results[1].Lng],
          err |-> NilErr]

\* one invocation of GoogleProvider.Geocode
GpGeocode ==
    /\ ~gpCall.called
    /\ \E address \in Addresses, resp \in GoogleResponses :
        gpCall' = [called |-> TRUE, address |-> address, resp |-> resp,
                   ret |-> GoogleGeocode(address, resp)]
    /\ UNCHANGED <<npPc, npAddress, addressVariations, idx, httpLog, npRet, fcCall>>
    /\ UNCHANGED <<svcVars, vpCall, cfgCall, mainCall>>

GoogleNext ==
    \/ GpGeocode

\* one GoogleProvider.Geocode call, for any address and any client response
GoogleSpec == Init /\ [][GoogleNext]_vars

\* ------------------------------------- NewProvider
ProviderTypeGoogle == "google"
ProviderTypeNominatim == "nominatim"
ProviderTypeVisicom == "visicom"
ProviderTypes ==
    {ProviderTypeGoogle, ProviderTypeNominatim, ProviderTypeVisicom,
     "unsupported", "Google", ""}

\* ProviderConfig (the logger left out)
ProviderConfigs ==
    [Type : ProviderTypes, APIKey : {"", "test-api-key"}, RateLimit : (-1)..MaxRateLimit]

\* what NewProvider returns, with how the provider was built: whether a rate
\* limit was set on it and which, and whether the warning was logged
NoProvider(errMsg) ==
    [provider |-> "nil", err |-> errMsg, rateLimited |-> FALSE, rateLimit |-> 0,
     warned |-> FALSE]

\* maps.NewClient(WithAPIKey, [WithRateLimit]); NewGoogleProvider
newGoogleProvider(config) ==
    IF config.APIKey = ""
    THEN NoProvider("API key is required for Google provider")
    ELSE [provider |-> "GoogleProvider", err |-> "",
          rateLimited |-> config.RateLimit > 0,
          rateLimit |-> IF config.RateLimit > 0 THEN config.RateLimit ELSE 0,
          warned |-> FALSE]

newNominatimProvider(config) ==
    [provider |-> "NominatimProvider", err |-> "", rateLimited |-> FALSE, rateLimit |-> 0,
     warned |-> FALSE]

\* newVisicomProvider handing RateLimit on as configured
newVisicomProviderNoDefault(config) ==
    IF config.APIKey = ""
    THEN NoProvider("API key is required for Visicom provider")
    ELSE [provider |-> "VisicomProvider", err |-> "", rateLimited |-> TRUE,
          rateLimit |-> config.RateLimit, warned |-> FALSE]

\* newVisicomProvider without the API key test
newVisicomProviderNoKeyTest(config) ==
    [provider |-> "VisicomProvider", err |-> "", rateLimited |-> TRUE,
     rateLimit |-> IF config.RateLimit = 0 THEN visicomRateLimit ELSE config.RateLimit,
     warned |-> config.RateLimit = 0]

newVisicomProvider(config) ==
    IF config.APIKey = ""
    THEN NoProvider("API key is required for Visicom provider")
    ELSE [provider |-> "VisicomProvider", err |-> "", rateLimited |-> TRUE,
          rateLimit |-> IF config.RateLimit = 0 THEN visicomRateLimit ELSE config.RateLimit,
          warned |-> config.RateLimit = 0]

NewProvider(config) ==
    CASE config.Type = ProviderTypeGoogle -> newGoogleProvider(config)
      [] config.Type = ProviderTypeNominatim -> newNominatimProvider(config)
      [] config.Type = ProviderTypeVisicom -> newVisicomProvider(config)
      [] OTHER -> NoProvider("unsupported provider type: " \o config.Type)

\* one invocation of NewProvider
FcNewProvider ==
    /\ ~fcCall.called
    /\ \E config \in ProviderConfigs :
        fcCall' = [called |-> TRUE, config |-> config, ret |-> NewProvider(config)]
    /\ UNCHANGED <<npPc, npAddress, addressVariations, idx, httpLog, npRet, gpCall>>
    /\ UNCHANGED <<svcVars, vpCall, cfgCall, mainCall>>

FactoryNext ==
    \/ FcNewProvider

\* one NewProvider call, for any configuration
FactorySpec == Init /\ [][FactoryNext]_vars

\* ------------------------------------- main: the provider's rate budget
\* the provider-wide budget main divides among the workers
rateLimit == 50

\* the worker counts and settings main may be started with
MainConfigs ==
    [Workers : (0 - MaxWorkers)..MaxWorkers, ProviderType : ProviderTypes,
     APIKey : {"", "test-api-key"}]

Abs(n) == IF n < 0 THEN 0 - n ELSE n

\* a quotient rounded away from zero
QuoRoundsUp(a, b) ==
    LET q == (Abs(a) + Abs(b) - 1) \div Abs(b)
    IN IF (a < 0) = (b < 0) THEN q ELSE 0 - q

\* Go's a / b for integers, b # 0: the quotient truncated toward zero
Quo(a, b) ==
    LET q == Abs(a) \div Abs(b)
    IN IF (a < 0) = (b < 0) THEN q ELSE 0 - q

\* main did not get as far as a provider configuration
NoProviderConfig == [Type |-> "", APIKey |-> "", RateLimit |-> 0]

\* main from MustLoad's return to the provider: the database connection, the
\* provider configuration with its division, NewProvider.  `abort' is how the
\* startup ended early: "" when it did not.
MainStartup ==
    /\ ~mainCall.called
    /\ \E cfg \in MainConfigs, dbErr \in BOOLEAN :
        LET providerConfig ==
                [Type |-> cfg.ProviderType, APIKey |-> cfg.APIKey,
                 RateLimit |-> Quo(rateLimit, cfg.Workers)]
        IN mainCall' =
            IF dbErr
            THEN [called |-> TRUE, cfg |-> cfg, abort |-> "Failed to connect to DB",
                  providerConfig |-> NoProviderConfig, ret |-> NoProvider("")]
            ELSE IF cfg.Workers = 0
            THEN [called |-> TRUE, cfg |-> cfg,
                  abort |-> "panic: runtime error: integer divide by zero",
                  providerConfig |-> NoProviderConfig, ret |-> NoProvider("")]
            ELSE [called |-> TRUE, cfg |-> cfg,
                  abort |-> IF NewProvider(providerConfig).err # ""
                            THEN "Failed to create geocoding provider" ELSE "",
                  providerConfig |-> providerConfig, ret |-> NewProvider(providerConfig)]
    /\ UNCHANGED <<npPc, npAddress, addressVariations, idx, httpLog, npRet, gpCall, fcCall,
                   vpCall, cfgCall>>
    /\ UNCHANGED svcVars

MainNext ==
    \/ MainStartup

\* one start of the process, for any worker count, provider and key
MainSpec == Init /\ [][MainNext]_vars

(***************************************************************************)
(* VisicomProvider.Geocode (unnamed/part_005).  One call, with the context *)
(* it was given, the rate limiter it was built with and the response of   *)
(* the injected HTTP client.                                               *)
(***************************************************************************)
StatusUnauthorized == 401
StatusForbidden == 403
coordsListLength == 2

ErrVisicomEmptyResponse ==
    [VNilErr EXCEPT !.msg = "visicom API returned empty response", !.is = "ErrVisicomEmptyResponse"]
ErrVisicomEmptyAddress ==
    [VNilErr EXCEPT !.msg = "visicom provider got empty address", !.is = "ErrVisicomEmptyAddress"]
ErrVisicomInvalidCoords ==
    [VNilErr EXCEPT !.msg = "visicom API returned invalid coordinates", !.is = "ErrVisicomInvalidCoords"]
ErrVisicomUnathorized ==
    [VNilErr EXCEPT !.msg = "visicom API unathorized (invalid API key)", !.is = "ErrVisicomUnathorized"]

\* the addresses a call is made with
VisicomAddresses == {<<>>, <<"a">>, <<"a", " ", "b">>}

\* rate.Inf, or a finite rate with a burst of at least one
Limiters == {"inf", "finite"}

\* geo_centroid.coordinates of a decoded body
CoordLists == UNION {[1..n -> {1, 2}] : n \in 0..(coordsListLength + 1)}

VisicomBodies ==
    {[raw |-> "invalid", json |-> FALSE, coordinates |-> <<>>]}
        \cup {[raw |-> "json", json |-> TRUE, coordinates |-> c] : c \in CoordLists}

\* what client.Do returns: a transport error, or a status and a body
VisicomResponses ==
    {[err |-> "network", status |-> 0, body |-> VNoBody]}
        \cup [err : {""},
              status : {StatusOK, StatusUnauthorized, StatusForbidden, StatusTooManyRequests},
              body : VisicomBodies]

\* the return values of Geocode
VpFail(err) == [coords |-> VNilCoords, err |-> err]
VpFound(lat, lon) ==
    [coords |-> [set |-> TRUE, Latitude |-> lat, Longitude |-> lon], err |-> VNilErr]

\* a classification that reads the coordinate list as [lat, lon]
VisicomClassifyLatFirst(resp) ==
    IF resp.err # ""
    THEN VpFail([VNilErr EXCEPT !.msg = "failed to execute geocoding request"])
    ELSE IF resp.status \in {StatusUnauthorized, StatusForbidden}
    THEN VpFail(ErrVisicomUnathorized)
    ELSE IF resp.status # StatusOK
    THEN VpFail([VNilErr EXCEPT !.msg = "visicom API returned status",
                                !.status = resp.status, !.body = resp.body])
    ELSE IF ~resp.body.json
    THEN VpFail([VNilErr EXCEPT !.msg = "failed to decode visicom response"])
    ELSE IF Len(resp.body.coordinates) = 0
    THEN VpFail(ErrVisicomEmptyResponse)
    ELSE IF Len(resp.body.coordinates) # coordsListLength
    THEN VpFail(ErrVisicomInvalidCoords)
    ELSE VpFound(resp.body.coordinates[1], resp.body.coordinates[2])

\* Geocode from the response on: status switch, decoding, coordinate list
VisicomClassify(resp) ==
    IF resp.err # ""
    THEN VpFail([VNilErr EXCEPT !.msg = "failed to execute geocoding request"])
    ELSE IF resp.status \in {StatusUnauthorized, StatusForbidden}
    THEN VpFail(ErrVisicomUnathorized)
    ELSE IF resp.status # StatusOK
    THEN VpFail([VNilErr EXCEPT !.msg = "visicom API returned status",
                                !.status = resp.status, !.body = resp.body])
    ELSE IF ~resp.body.json
    THEN VpFail([VNilErr EXCEPT !.msg = "failed to decode visicom response"])
    ELSE IF Len(resp.body.coordinates) = 0
    THEN VpFail(ErrVisicomEmptyResponse)
    ELSE IF Len(resp.body.coordinates) # coordsListLength
    THEN VpFail(ErrVisicomInvalidCoords)
    ELSE VpFound(resp.body.coordinates[2], resp.body.coordinates[1])

otherProvVars == <<npPc, npAddress, addressVariations, idx, httpLog, npRet, gpCall, fcCall,
                   cfgCall, mainCall>>

\* a caller invokes Geocode(ctx, address) on a provider with some limiter
VpCall ==
    /\ vpCall.pc = "idle"
    /\ \E address \in VisicomAddresses, limiter \in Limiters :
        vpCall' = [vpCall EXCEPT !.pc = "wait", !.address = address, !.limiter = limiter]
    /\ UNCHANGED <<svcVars, otherProvVars>>

\* the caller's context is cancelled; a Wait parked on the limiter returns ctx.Err()
VpCancel ==
    /\ ~vpCall.cancelled
    /\ vpCall.pc # "done"
    /\ vpCall' =
        IF vpCall.pc = "parked"
        THEN [vpCall EXCEPT !.cancelled = TRUE, !.pc = "done",
                            !.ret = VpFail([VNilErr EXCEPT !.msg = "rate limit exceeded"])]
        ELSE [vpCall EXCEPT !.cancelled = TRUE]
    /\ UNCHANGED <<svcVars, otherProvVars>>

\* vp.limiter.Wait(ctx) that lets a call through whatever the context
VpWaitIgnoresCtx ==
    /\ vpCall.pc = "wait"
    /\ vpCall' = [vpCall EXCEPT !.pc = "request", !.granted = TRUE]
    /\ UNCHANGED <<svcVars, otherProvVars>>

\* vp.limiter.Wait(ctx): a done context fails at once; otherwise the token is
\* there, or the call parks until the token or the cancellation
VpWait ==
    /\ vpCall.pc = "wait"
    /\ IF vpCall.cancelled
       THEN vpCall' = [vpCall EXCEPT !.pc = "done",
                          !.ret = VpFail([VNilErr EXCEPT !.msg = "rate limit exceeded"])]
       ELSE \E available \in (IF vpCall.limiter = "inf" THEN {TRUE} ELSE BOOLEAN) :
                vpCall' = IF available
                          THEN [vpCall EXCEPT !.pc = "request", !.granted = TRUE]
                          ELSE [vpCall EXCEPT !.pc = "parked", !.waited = TRUE]
    /\ UNCHANGED <<svcVars, otherProvVars>>

\* the limiter's timer fires for a parked Wait
VpToken ==
    /\ vpCall.pc = "parked"
    /\ vpCall' = [vpCall EXCEPT !.pc = "request", !.granted = TRUE]
    /\ UNCHANGED <<svcVars, otherProvVars>>

\* the rest of Geocode: the empty-address test, the request, the classification
VpRequest ==
    /\ vpCall.pc = "request"
    /\ IF vpCall.address = <<>>
       THEN vpCall' = [vpCall EXCEPT !.pc = "done", !.ret = VpFail(ErrVisicomEmptyAddress)]
       ELSE \E resp \in VisicomResponses :
                vpCall' = [vpCall EXCEPT !.pc = "done",
                              !.requests = Append(@, [text |-> vpCall.address, limit |-> "1",
                                                      resp |-> resp]),
                              !.ret = VisicomClassify(resp)]
    /\ UNCHANGED <<svcVars, otherProvVars>>

VisicomNext ==
    \/ VpCall
    \/ VpCancel
    \/ VpWait
    \/ VpToken
    \/ VpRequest

\* one VisicomProvider.Geocode call, for any address, limiter, cancellation and response
VisicomSpec == Init /\ [][VisicomNext]_vars

(***************************************************************************)
(* config.MustLoad (internal/config/config.go).  The environment is the    *)
(* process environment after godotenv.Load; a value is a text, a sequence  *)
(* of characters.                                                          *)
(***************************************************************************)
EnvKeys == {"ATLAS_INTERVAL", "ATLAS_HEALTH_PORT", "ATLAS_WORKERS",
            "ATLAS_PROVIDER_KEY", "ATLAS_PROVIDER_API_KEY"}

Unset == [set |-> FALSE, val |-> <<>>]
SetTo(text) == [set |-> TRUE, val |-> text]

\* values given to ATLAS_INTERVAL
IntervalTexts == {<<"1", "0", "m">>, <<"5", "s">>, <<"1", "h", "3", "0", "m">>, <<"0">>,
                  <<"1", "0">>, <<"m">>, <<"5", "x">>, <<"x">>, <<>>}

\* values given to ATLAS_HEALTH_PORT and ATLAS_WORKERS
IntTexts == {<<"4">>, <<"1", "0">>, <<"0">>, <<"-", "1">>, <<"+", "4">>,
             <<"x">>, <<"1", "x">>, <<"1", ".", "5">>, <<"-">>, <<>>}

Envs ==
    {[k \in EnvKeys |->
        CASE k = "ATLAS_INTERVAL" -> i
          [] k = "ATLAS_HEALTH_PORT" -> p
          [] k = "ATLAS_WORKERS" -> w
          [] k = "ATLAS_PROVIDER_KEY" -> k1
          [] k = "ATLAS_PROVIDER_API_KEY" -> k2] :
        i \in {Unset} \cup {SetTo(t) : t \in IntervalTexts},
        p \in {Unset} \cup {SetTo(t) : t \in IntTexts},
        w \in {Unset} \cup {SetTo(t) : t \in IntTexts},
        k1 \in {Unset, SetTo(<<"k">>)},
        k2 \in {Unset, SetTo(<<"K", "2">>)}}

\* os.Getenv(key): the empty string for a variable that is not set
Getenv(env, key) == IF env[key].set THEN env[key].val ELSE <<>>

\* setDeafultEnv(key, override): os.LookupEnv, the override only when unset
setDeafultEnv(env, key, override) == IF env[key].set THEN env[key].val ELSE override

DigitVal(c) ==
    CASE c = "0" -> 0 [] c = "1" -> 1 [] c = "2" -> 2 [] c = "3" -> 3 [] c = "4" -> 4
      [] c = "5" -> 5 [] c = "6" -> 6 [] c = "7" -> 7 [] c = "8" -> 8 [] c = "9" -> 9

\* the number a run of decimal digits denotes
RECURSIVE NumberOf(_)
NumberOf(ds) ==
    IF ds = <<>> THEN 0
    ELSE NumberOf(SubSeq(ds, 1, Len(ds) - 1)) * 10 + DigitVal(ds[Len(ds)])

\* strconv.Atoi: an optional sign, then one or more decimal digits and
\* nothing else. (Texts short enough not to overflow an int.)
Atoi(text) ==
    LET sign == IF Len(text) > 0 /\ text[1] \in {"+", "-"} THEN 1 ELSE 0
        ds == SubSeq(text, sign + 1, Len(text))
    IN IF Len(ds) = 0 \/ \E i \in 1..Len(ds) : ds[i] \notin Digits
       THEN [ok |-> FALSE, val |-> 0]
       ELSE [ok |-> TRUE,
             val |-> IF sign = 1 /\ text[1] = "-" THEN 0 - NumberOf(ds) ELSE NumberOf(ds)]

\* time.ParseDuration's unit table, in seconds (the units of a second or more)
unitMap == [u \in {<<"s">>, <<"m">>, <<"h">>} |->
               CASE u = <<"s">> -> 1 [] u = <<"m">> -> 60 [] u = <<"h">> -> 3600]

\* time.ParseDuration from position i on: (digits unit)+, summed up
RECURSIVE parseTerms(_, _, _)
parseTerms(s, i, acc) ==
    IF i > Len(s) THEN [ok |-> TRUE, val |-> acc]
    ELSE LET n == RunLen(s, i, Digits)
             u == RunLen(s, i + n, {"s", "m", "h", "x", "+", "-"})
             unit == SubSeq(s, i + n, i + n + u - 1)
         IN IF n = 0 \/ u = 0 \/ unit \notin DOMAIN unitMap
            THEN [ok |-> FALSE, val |-> 0]
            ELSE parseTerms(s, i + n + u,
                            acc + NumberOf(SubSeq(s, i, i + n - 1)) * unitMap[unit])

\* time.ParseDuration: [sign] then "0" or a non-empty sequence of terms;
\* the value in seconds. (Texts without a fraction.)
ParseDuration(text) ==
    LET sign == IF Len(text) > 0 /\ text[1] \in {"+", "-"} THEN 1 ELSE 0
        rest == SubSeq(text, sign + 1, Len(text))
        terms == parseTerms(rest, 1, 0)
    IN IF rest = <<"0">> THEN [ok |-> TRUE, val |-> 0]
       ELSE IF rest = <<>> THEN [ok |-> FALSE, val |-> 0]
       ELSE IF sign = 1 /\ text[1] = "-" /\ terms.ok
       THEN [ok |-> TRUE, val |-> 0 - terms.val]
       ELSE terms

\* the Config fields of a MustLoad that panicked
NoConfig == [Port |-> 0, APIKey |-> <<>>, Workers |-> 0, Interval |-> 0]

\* a MustLoad that replaces an unparsable value by its default
MustLoadFallsBack(env) ==
    LET interval == ParseDuration(setDeafultEnv(env, "ATLAS_INTERVAL", <<"1", "0", "m">>))
        healthPort == Atoi(setDeafultEnv(env, "ATLAS_HEALTH_PORT", <<"8", "0", "8", "0">>))
        workers == Atoi(setDeafultEnv(env, "ATLAS_WORKERS", <<"1", "0">>))
    IN [panic |-> "",
        cfg |-> [Port |-> IF healthPort.ok THEN healthPort.val
                          ELSE Atoi(<<"8", "0", "8", "0">>).val,
                 APIKey |-> Getenv(env, "ATLAS_PROVIDER_KEY"),
                 Workers |-> IF workers.ok THEN workers.val ELSE Atoi(<<"1", "0">>).val,
                 Interval |-> IF interval.ok THEN interval.val
                              ELSE ParseDuration(<<"1", "0", "m">>).val]]

\* MustLoad(): the panic message, or the Config returned
MustLoad(env) ==
    LET interval == ParseDuration(setDeafultEnv(env, "ATLAS_INTERVAL", <<"1", "0", "m">>))
        healthPort == Atoi(setDeafultEnv(env, "ATLAS_HEALTH_PORT", <<"8", "0", "8", "0">>))
        workers == Atoi(setDeafultEnv(env, "ATLAS_WORKERS", <<"1", "0">>))
    IN IF ~interval.ok
       THEN [panic |-> "failed to parse interval from configuration", cfg |-> NoConfig]
       ELSE IF ~healthPort.ok
       THEN [panic |-> "failed to parse port for monitoring server from configuration",
             cfg |-> NoConfig]
       ELSE IF ~workers.ok
       THEN [panic |-> "failed to parse workers from configuration, must be an integer types",
             cfg |-> NoConfig]
       ELSE [panic |-> "",
             cfg |-> [Port |-> healthPort.val,
                      APIKey |-> Getenv(env, "ATLAS_PROVIDER_KEY"),
                      Workers |-> workers.val,
                      Interval |-> interval.val]]

\* the process starts and loads its configuration from some environment
CfgMustLoad ==
    /\ ~cfgCall.called
    /\ \E env \in Envs :
        cfgCall' = [called |-> TRUE, env |-> env, ret |-> MustLoad(env)]
    /\ UNCHANGED <<npPc, npAddress, addressVariations, idx, httpLog, npRet, gpCall, fcCall,
                   vpCall, mainCall>>
    /\ UNCHANGED svcVars

ConfigNext ==
    \/ CfgMustLoad

\* one MustLoad call, for any environment
ConfigSpec == Init /\ [][ConfigNext]_vars

\* ------------------------------------------------------------- vocabulary
InBatch(t) == \E i \in 1..Len(tasks) : tasks[i] = t
CycleDone == ptPc = "idle" /\ lastFetch = "batch"
Running(w) == wPc[w] \in {"recv", "geocode", "branch"}

RECURSIVE WritesUpTo(_)
\* repository writes of this cycle for tasks 1..t
WritesUpTo(t) == IF t = 0 THEN 0 ELSE Len(writeLog[t]) + WritesUpTo(t - 1)

TypeOK ==
    /\ cancelled \in BOOLEAN /\ exited \in BOOLEAN /\ tickerOn \in BOOLEAN
    /\ tickBuf \in 0..TickerCap
    /\ ticksFired \in 0..MaxTicks
    /\ ticksDropped \in 0..MaxTicks
    /\ runPc \in {"start", "select", "parked", "tick", "stop", "cycle", "done"}
    /\ ptPc \in {"idle", "fetch", "spawn", "push", "wait"}
    /\ pushed \in 0..NumTasks
    /\ wg \in 0..NumWorkers
    /\ wPc \in [Workers -> {"none", "recv", "geocode", "branch", "exited"}]
    /\ wTask \in [Workers -> TaskIds \cup {NoTask}]
    /\ lastFetch \in {"none", "error", "empty", "batch"}

C2_WriteFollowsOutcome ==
    \A t \in TaskIds :
        /\ Len(writeLog[t]) <= Len(geocodeLog[t])
        /\ (recvLog[t] > 0 /\ \A w \in Workers : wTask[w] # t) =>
               /\ Len(geocodeLog[t]) = 1
               /\ Len(writeLog[t]) = 1
        /\ Len(writeLog[t]) = 1 =>
               /\ writeLog[t][1].op =
                      (IF geocodeLog[t][1].res.ok THEN "update" ELSE "increment")
               /\ writeLog[t][1].arg = geocodeLog[t][1].res.val

\* both outcomes handled in one cycle: a task resolved and updated, another
\* failed and incremented
C2_Witness ==
    /\ \E t \in TaskIds : /\ Len(geocodeLog[t]) = 1 /\ geocodeLog[t][1].res.ok
                          /\ Len(writeLog[t]) = 1
    /\ \E t \in TaskIds : /\ Len(geocodeLog[t]) = 1 /\ ~geocodeLog[t][1].res.ok
                          /\ Len(writeLog[t]) = 1

\* ------------------------------------------------------------------ C3
\* C3: within a cycle every fetched task is received from the jobs channel by
\* exactly one worker: never twice, never by two workers at once, and by the
\* end of the cycle every fetched task once.
C3_OneWorkerPerTask ==
    /\ \A t \in TaskIds : recvLog[t] <= 1
    /\ \A t \in TaskIds : ~InBatch(t) => recvLog[t] = 0
    /\ \A w1, w2 \in Workers :
           (w1 # w2 /\ wTask[w1] # NoTask) => wTask[w1] # wTask[w2]
    /\ CycleDone => \A t \in TaskIds : InBatch(t) => recvLog[t] = 1

\* two workers at work at the same time, each on its own task
C3_Witness ==
    \E w1, w2 \in Workers :
        /\ w1 # w2
        /\ wTask[w1] # NoTask
        /\ wTask[w2] # NoTask
        /\ wPc[w1] = "geocode"
        /\ wPc[w2] = "branch"

\* ------------------------------------------------------------------ C4
\* C4: processTask returns only after every worker it started has exited; so
\* whenever no cycle is in progress, and when the next cycle's fetch is
\* issued, no worker is running, none holds a task, and the WaitGroup is at
\* zero: no provider call or repository write of an earlier cycle is pending.
C4_JoinBeforeNextFetch ==
    (ptPc \in {"idle", "fetch"}) =>
        /\ \A w \in Workers : ~Running(w) /\ wTask[w] = NoTask
        /\ wg = 0
        /\ jobs = <<>>

\* the fetch of a later cycle is about to be issued after a cycle that ran
\* workers
C4_Witness ==
    /\ ptPc = "fetch"
    /\ fetchCalls >= 1
    /\ \A w \in Workers : wPc[w] = "exited"

\* ------------------------------------------------------------------ C5
CyclesStarted == fetchCalls + (IF ptPc = "fetch" THEN 1 ELSE 0)

\* every tick fired is a started cycle, the tick Run has just taken, a tick
\* waiting in ticker.C, or a dropped tick; at most TickerCap ticks wait; a
\* cycle is in progress exactly while Run is inside processTask
C5_TickAccounting ==
    /\ tickBuf <= TickerCap
    /\ ticksFired = CyclesStarted + (IF runPc = "tick" THEN 1 ELSE 0)
                        + tickBuf + ticksDropped
    /\ (runPc = "cycle") <=> (ptPc # "idle")

\* C5: Run executes the cycles one at a time inside its loop. A tick that
\* fires during a cycle waits (the next cycle is delayed until the running one
\* has returned), further ticks are dropped only while one already waits (so
\* never more than one waits), and a waiting tick is removed only by Run
\* taking it, which always starts a cycle (it is not skipped).
C5_CyclesOneAtATime ==
    /\ []C5_TickAccounting
    /\ [][ticksDropped' > ticksDropped =>
              tickBuf = TickerCap /\ tickBuf' = tickBuf]_vars
    /\ [][tickBuf' < tickBuf =>
              runPc = "select" /\ ptPc = "idle" /\ runPc' = "tick"]_vars
    /\ [][(runPc = "tick" /\ runPc' # "tick") =>
              runPc' = "cycle" /\ ptPc' = "fetch"]_vars

\* the first cycle is still running its workers after three ticks: one
\* started it, one waits in ticker.C, one was dropped
C5_Witness ==
    /\ runPc = "cycle"
    /\ ptPc \in {"push", "wait"}
    /\ fetchCalls = 1
    /\ tickBuf = 1
    /\ ticksDropped = 1
    /\ \E w \in Workers : wPc[w] = "geocode"

\* ------------------------------------------------------------------ C6
\* C6: Run returns only when the context is cancelled, and when the context is
\* cancelled before the first tick Run returns without any fetch, provider
\* call or repository write having been issued.
C6_RunUntilCancelled ==
    /\ (runPc \in {"stop", "done"}) => cancelled
    /\ (cancelledEarly /\ runPc = "done") =>
           /\ fetchCalls = 0
           /\ metrics.observed = 0
           /\ \A t \in TaskIds : db[t].attempts = 0 /\ db[t].coords = NoCoords

\* ------------------------------------------------------------------ C7
\* C7: when the shutdown signal cancels the context during a batch, the
\* process does not end before every task of the batch has its repository
\* write: no task is left unprocessed or between resolution and write.
C7_BatchFinishesBeforeExit ==
    exited =>
        /\ \A t \in TaskIds : InBatch(t) => Len(writeLog[t]) = 1
        /\ \A w \in Workers : ~Running(w)

\* ------------------------------------------------------------------ C8
\* in a cycle whose fetch failed nothing is dispatched
C8_NothingDispatched ==
    lastFetch = "error" =>
        /\ ptPc = "idle"
        /\ spawned = 0
        /\ jobsCap = 0
        /\ tasks = <<>>
        /\ jobs = <<>>
        /\ \A t \in TaskIds :
               recvLog[t] = 0 /\ geocodeLog[t] = <<>> /\ writeLog[t] = <<>>
        /\ \A w \in Workers : ~Running(w)

\* C8: when FetchTasksForGeocoding fails the cycle ends with no worker
\* started and no provider call or repository write issued; the failure is
\* not fatal: Run is back at its select with nothing else changed, and the
\* next tick it takes starts a cycle that fetches again.
C8_FetchErrorEndsCycle ==
    /\ []C8_NothingDispatched
    /\ [][(lastFetch' = "error" /\ lastFetch # "error") =>
              /\ runPc' = "select"
              /\ db' = db /\ metrics' = metrics /\ wg' = wg]_vars
    /\ [][(lastFetch = "error" /\ runPc = "tick" /\ runPc' # "tick") =>
              runPc' = "cycle" /\ ptPc' = "fetch"]_vars

\* after a failed fetch Run has taken the next tick
C8_Witness ==
    /\ lastFetch = "error"
    /\ runPc = "tick"
    /\ fetchCalls >= 1

\* ------------------------------------------------------------------ C9
\* C9: when FetchTasksForGeocoding returns an empty list the cycle ends at
\* once: processTask has returned, no jobs channel was made, no worker
\* started, and no provider call or repository write was issued.
C9_EmptyBatchEndsCycle ==
    lastFetch = "empty" =>
        /\ ptPc = "idle"
        /\ spawned = 0
        /\ jobsCap = 0
        /\ ~jobsClosed
        /\ jobs = <<>>
        /\ \A t \in TaskIds :
               recvLog[t] = 0 /\ geocodeLog[t] = <<>> /\ writeLog[t] = <<>>
        /\ \A w \in Workers : ~Running(w)

\* a later cycle found nothing left to geocode
C9_Witness ==
    /\ lastFetch = "empty"
    /\ fetchCalls >= 2
    /\ \A t \in TaskIds : db[t].coords # NoCoords

\* ------------------------------------------------------------------ C10
\* a repository write of this cycle returned an error
WriteFailed(log) == \E t \in TaskIds : log[t] # <<>> /\ ~log[t][Len(log[t])].ok
FailedWrites(log) == {t \in TaskIds : log[t] # <<>> /\ ~log[t][Len(log[t])].ok}

\* C10: a failed IncrementFailureCount or UpdateTaskCoordinates is not
\* escalated: the worker whose write failed is back at its receive, the
\* queued tasks stay queued, processTask and Run stay where they are, no
\* worker exits; and a cycle in which writes failed still ends with every
\* fetched task received and written once.
C10_WriteErrorNotEscalated ==
    /\ [][(FailedWrites(writeLog') # FailedWrites(writeLog) /\ ptPc # "idle") =>
              /\ \E w \in Workers : wPc[w] = "branch" /\ wPc'[w] = "recv"
              /\ \A w \in Workers : wPc'[w] # "exited" \/ wPc[w] = "exited"
              /\ jobs' = jobs /\ wg' = wg
              /\ ptPc' = ptPc /\ runPc' = runPc]_vars
    /\ [](CycleDone /\ WriteFailed(writeLog) =>
              \A t \in TaskIds : InBatch(t) => recvLog[t] = 1 /\ Len(writeLog[t]) = 1)

\* after a cycle in which both kinds of write failed, Run has taken the next
\* tick
C10_Witness ==
    /\ runPc = "tick"
    /\ lastFetch = "batch"
    /\ \E t \in TaskIds : /\ writeLog[t] # <<>> /\ ~writeLog[t][1].ok
                          /\ writeLog[t][1].op = "update"
    /\ \E t \in TaskIds : /\ writeLog[t] # <<>> /\ ~writeLog[t][1].ok
                          /\ writeLog[t][1].op = "increment"

\* ------------------------------------------------------------------ C11
\* C11: no task is retried within a cycle: provider.Geocode is called at most
\* once per fetched task in a cycle, never for a task outside the batch, and
\* exactly once per fetched task by the end of the cycle, whether it resolved
\* or failed and whether the write that followed was stored or not; only a
\* later cycle that fetches the task again calls Geocode for it again.
C11_NoRetryWithinCycle ==
    /\ \A t \in TaskIds : Len(geocodeLog[t]) <= 1
    /\ \A t \in TaskIds : ~InBatch(t) => geocodeLog[t] = <<>>
    /\ CycleDone => \A t \in TaskIds : InBatch(t) => Len(geocodeLog[t]) = 1
    /\ \A t \in TaskIds :
           (geocodeLog[t] # <<>> /\ \A w \in Workers : wTask[w] # t) =>
               Len(geocodeLog[t]) = 1 /\ Len(writeLog[t]) = 1

\* a task whose failure an earlier cycle recorded has been fetched again and
\* Geocode has just failed for it again, once
C11_Witness ==
    \E w \in Workers :
        /\ wPc[w] = "branch"
        /\ ~wRes[w].ok
        /\ db[wTask[w]].attempts >= 1
        /\ Len(geocodeLog[wTask[w]]) = 1
        /\ fetchCalls >= 2

\* ------------------------------------------------------------------ C12
\* workers that hold a Geocode result and have not yet branched on it
AtBranch == {w \in Workers : wPc[w] = "branch"}

\* C12: every task taken from the queue gets exactly one observation in the
\* request-duration histogram, for a success as for a failure: an observation
\* is made only by the step in which Geocode returns, one at a time, with no
\* outcome counter and no repository write in that step; outcome counters and
\* repository writes come only from a worker that has already observed; and
\* the observations are the outcomes counted plus the workers between the two.
C12_OneObservationBeforeBranch ==
    /\ [](metrics.observed = metrics.success + metrics.failure + Cardinality(AtBranch))
    /\ [][metrics'.observed # metrics.observed =>
              /\ metrics'.observed = metrics.observed + 1
              /\ \E w \in Workers :
                     /\ wPc[w] = "geocode" /\ wPc'[w] = "branch"
                     /\ Len(geocodeLog'[wTask[w]]) = Len(geocodeLog[wTask[w]]) + 1
              /\ metrics'.success = metrics.success
              /\ metrics'.failure = metrics.failure
              /\ db' = db /\ writeLog' = writeLog]_vars
    /\ [][(metrics'.success # metrics.success \/ metrics'.failure # metrics.failure
               \/ writeLog' # writeLog) /\ ptPc' # "fetch" =>
              \E w \in Workers :
                  /\ wPc[w] = "branch" /\ wPc'[w] # "branch"
                  /\ Len(geocodeLog[wTask[w]]) = 1]_vars

\* two observations made in one cycle, one for a resolved task already
\* counted, one for a failed task whose counter and write are still to come
C12_Witness ==
    /\ metrics.observed = 2
    /\ metrics.success = 1
    /\ metrics.failure = 0
    /\ \E w \in Workers : wPc[w] = "branch" /\ ~wRes[w].ok

\* ------------------------------------------------------------------ C13
\* the comma-separated components of an address, trimmed
Components(address) ==
    LET split == Split(address, ",") IN [i \in 1..Len(split) |-> TrimSpace(split[i])]

\* the variations in the order the claim lists them, before any is removed
Candidates(address) ==
    LET parts == Components(address)
        n == Len(parts)
    IN <<address>>
       \o (IF n > 1 THEN <<Join(SubSeq(parts, 1, n - 1), <<",", " ">>)>> ELSE <<>>)
       \o (IF n > 2 THEN <<Join(SubSeq(parts, 1, n - 2), <<",", " ">>)>> ELSE <<>>)
       \o (IF n > 1 THEN <<parts[1]>> ELSE <<>>)

RECURSIVE Dedupe(_)
\* repeats removed, the first occurrence kept
Dedupe(vs) ==
    IF vs = <<>> THEN <<>>
    ELSE LET init == Dedupe(SubSeq(vs, 1, Len(vs) - 1))
             last == vs[Len(vs)]
         IN IF \E i \in 1..Len(init) : init[i] = last THEN init ELSE Append(init, last)

NotEmpty(v) == v # <<>>

\* C13 as stated: the variations are the candidates with repeats removed
C13_FallbacksAsClaimed ==
    npPc # "idle" => addressVariations = Dedupe(Candidates(npAddress))

\* C13 (amended): generateAddressFallbacks returns the address as given, then
\* (n > 1) the first n-1 components joined by ", ", then (n > 2) the first n-2
\* components joined by ", ", then (n > 1) the first component, with the empty
\* variations left out and repeats removed keeping the first occurrence; the
\* empty address yields the empty address alone. A three-component address
\* whose first component is not empty yields exactly [full, first two
\* components, first component]; an address with no comma yields itself.
C13_FallbacksDropEmpty ==
    npPc # "idle" =>
        /\ addressVariations =
               (IF npAddress = <<>> THEN << <<>> >>
                ELSE Dedupe(SelectSeq(Candidates(npAddress), NotEmpty)))
        /\ (\A i \in 1..Len(npAddress) : npAddress[i] # ",") =>
               addressVariations = <<npAddress>>
        /\ (Len(Components(npAddress)) = 3 /\ Components(npAddress)[1] # <<>>) =>
               addressVariations =
                   <<npAddress,
                     Components(npAddress)[1] \o <<",", " ">> \o Components(npAddress)[2],
                     Components(npAddress)[1]>>

\* a three-component address with its three variations, and a repeat removed
C13_Witness ==
    /\ npPc = "loop"
    /\ Len(Components(npAddress)) = 3
    /\ Len(addressVariations) = 3
    /\ Len(Candidates(npAddress)) = 4
    /\ addressVariations[3] = Components(npAddress)[1]

\* ------------------------------------------------------------------ C14
\* an outcome of one request: a success, a soft miss, a hard failure
Succeeded(out) == out.err = NilErr
SoftMiss(out) == ErrorsIs(out.err, ErrNominatimEmptyResponse)
HardFailure(out) == ~Succeeded(out) /\ ~SoftMiss(out)

\* C14: Geocode requests the variations one after the other in generator
\* order, one request per variation; a success is always the last request
\* made, every request before it was an empty result, and Geocode has returned
\* the coordinates of that request: with variation k the first success exactly
\* k requests were issued and none is issued afterwards.
C14_FirstSuccessWins ==
    /\ Len(httpLog) <= Len(addressVariations)
    /\ \A i \in 1..Len(httpLog) : httpLog[i].q = addressVariations[i]
    /\ \A i \in 1..Len(httpLog) :
           Succeeded(httpLog[i].out) =>
               /\ i = Len(httpLog)
               /\ npPc = "done"
               /\ npRet = [coords |-> httpLog[i].out.coords, err |-> NilErr]
               /\ npRet.coords.Latitude = Sscanf(httpLog[i].resp.body.results[1].Lat).val
               /\ npRet.coords.Longitude = Sscanf(httpLog[i].resp.body.results[1].Lon).val
               /\ \A j \in 1..(i - 1) :
                      /\ SoftMiss(httpLog[j].out)
                      /\ httpLog[j].resp.status = StatusOK
                      /\ httpLog[j].resp.body.results = <<>>
    /\ (npPc = "done" /\ npRet.err = NilErr) =>
           httpLog # <<>> /\ Succeeded(httpLog[Len(httpLog)].out)

\* the third variation was the first to succeed
C14_Witness ==
    /\ npPc = "done"
    /\ npRet.err = NilErr
    /\ Len(httpLog) = 3
    /\ Len(addressVariations) >= 3

\* ------------------------------------------------------------------ C15
\* C15: a request that fails with anything but the empty-response error (a
\* transport error, a status other than 200, an undecodable body, invalid
\* coordinate text) is the last request Geocode makes, and Geocode has returned
\* that very error and no coordinates; a status other than 200 on the first
\* request leaves exactly one request made.
C15_HardFailureAborts ==
    /\ \A i \in 1..Len(httpLog) :
           LET r == httpLog[i].resp
               o == httpLog[i].out
           IN /\ (r.err \/ r.status # StatusOK \/ ~r.body.json
                      \/ ErrorsIs(o.err, ErrNominatimInvalidCoords)) => HardFailure(o)
              /\ HardFailure(o) =>
                     /\ i = Len(httpLog)
                     /\ npPc = "done"
                     /\ npRet = [coords |-> NilCoords, err |-> o.err]
    /\ (httpLog # <<>> /\ ~httpLog[1].resp.err /\ httpLog[1].resp.status # StatusOK) =>
           /\ Len(httpLog) = 1
           /\ npRet.err.status = httpLog[1].resp.status

\* the second of at least three variations came back with invalid coordinate
\* text, after an empty first result
C15_Witness ==
    /\ npPc = "done"
    /\ Len(addressVariations) >= 3
    /\ Len(httpLog) = 2
    /\ ErrorsIs(npRet.err, ErrNominatimInvalidCoords)

\* ------------------------------------------------------------------ C16
\* every request made so far got status 200 and an empty array
AllEmptyResults ==
    \A i \in 1..Len(httpLog) :
        /\ ~httpLog[i].resp.err
        /\ httpLog[i].resp.status = StatusOK
        /\ httpLog[i].resp.body.json
        /\ httpLog[i].resp.body.results = <<>>

\* C16: when every variation returns zero results, Geocode has requested each
\* variation exactly once, in order, and returned ErrNominatimEmptyResponse,
\* the error a single empty result produces, with no coordinates.
C16_AllEmptyGivesEmptyResponse ==
    (npPc = "done" /\ AllEmptyResults) =>
        /\ Len(httpLog) = Len(addressVariations)
        /\ \A i \in 1..Len(httpLog) : httpLog[i].q = addressVariations[i]
        /\ ErrorsIs(npRet.err, ErrNominatimEmptyResponse)
        /\ npRet.err = httpLog[1].out.err
        /\ npRet.coords = NilCoords

\* three variations, three empty results
C16_Witness ==
    /\ npPc = "done"
    /\ AllEmptyResults
    /\ Len(httpLog) = 3

\* ------------------------------------------------------------------ C17
\* the text is a decimal number: an optional sign, digits with at most one
\* point, at least one digit, and nothing else
IsNumber(text) ==
    LET digits == IF text # <<>> /\ text[1] \in {"+", "-"} THEN Tail(text) ELSE text IN
    /\ \A i \in 1..Len(digits) : digits[i] \in Digits \cup {"."}
    /\ Cardinality({i \in 1..Len(digits) : digits[i] = "."}) <= 1
    /\ \E i \in 1..Len(digits) : digits[i] \in Digits

\* C17: each geocodeSingleAddress call makes one request and classifies its
\* outcome in this order: transport error, hard error; status other than 200,
\* hard error with the status and the body; undecodable body, hard decode
\* error; empty array, ErrNominatimEmptyResponse; first result with a latitude
\* or longitude text that is not a number, ErrNominatimInvalidCoords (not
\* ErrNominatimEmptyResponse); otherwise the first result's coordinates.
C17_Classification ==
    /\ Len(httpLog) = idx + (IF npPc = "done" /\ idx < Len(addressVariations) THEN 1 ELSE 0)
    /\ \A i \in 1..Len(httpLog) :
        LET r == httpLog[i].resp
            o == httpLog[i].out
        IN IF r.err
           THEN HardFailure(o) /\ o.err.msg = "failed to execute geocoding request"
           ELSE IF r.status # StatusOK
           THEN HardFailure(o) /\ o.err.status = r.status /\ o.err.body = r.body
           ELSE IF ~r.body.json
           THEN HardFailure(o) /\ o.err.msg = "failed to decode nominatim response"
           ELSE IF r.body.results = <<>>
           THEN o.err = ErrNominatimEmptyResponse
           ELSE IF ~IsNumber(r.body.results[1].Lat) \/ ~IsNumber(r.body.results[1].Lon)
           THEN /\ ErrorsIs(o.err, ErrNominatimInvalidCoords)
                /\ ~ErrorsIs(o.err, ErrNominatimEmptyResponse)
           ELSE /\ o.err = NilErr
                /\ o.coords = [Latitude |-> r.body.results[1].Lat,
                               Longitude |-> r.body.results[1].Lon]

\* ------------------------------------------------------------------ C18
\* C18: an invocation of GoogleProvider.Geocode sends exactly one request to
\* the client, for the address given; a client error comes back as an error
\* that wraps it, with no coordinates; an empty result list gives
\* ErrEmptyResponse and no coordinates; a non-empty list gives the latitude
\* and longitude of its first element, whatever follows it.
C18_DirectCall ==
    gpCall.called =>
        /\ Len(gpCall.ret.requests) = 1
        /\ gpCall.ret.requests[1].Address = gpCall.address
        /\ gpCall.resp.err =>
               /\ gpCall.ret.err.is = "client error"
               /\ gpCall.ret.err # NilErr
               /\ gpCall.ret.coords = NilCoords
        /\ (~gpCall.resp.err /\ gpCall.resp.results = <<>>) =>
               /\ gpCall.ret.err = ErrEmptyResponse
               /\ gpCall.ret.coords = NilCoords
        /\ (~gpCall.resp.err /\ gpCall.resp.results # <<>>) =>
               /\ gpCall.ret.err = NilErr
               /\ gpCall.ret.coords = [Latitude |-> gpCall.resp.results[1].Lat,
                                       Longitude |-> gpCall.resp.results[1].Lng]

\* a list of two different results, the first one returned
C18_Witness ==
    /\ gpCall.called
    /\ ~gpCall.resp.err
    /\ Len(gpCall.resp.results) = 2
    /\ gpCall.resp.results[1].Lat # gpCall.resp.results[2].Lat
    /\ gpCall.resp.results[1].Lat # gpCall.resp.results[1].Lng
    /\ gpCall.ret.coords.Latitude = gpCall.resp.results[1].Lat

\* ------------------------------------------------------------------ C19
Credentialed == {ProviderTypeGoogle, ProviderTypeVisicom}
Recognized == {ProviderTypeGoogle, ProviderTypeNominatim, ProviderTypeVisicom}

\* C19: NewProvider returns an error and no provider for a credentialed kind
\* (google, visicom) with an empty API key, and for a kind tag that is not
\* recognized, the empty tag included, with a message that names the tag; the
\* nominatim kind is built with or without an API key.
C19_ConstructionErrors ==
    fcCall.called =>
        LET config == fcCall.config
            ret == fcCall.ret
        IN /\ (config.Type \in Credentialed /\ config.APIKey = "") =>
                  ret.provider = "nil" /\ ret.err # ""
           /\ config.Type \notin Recognized =>
                  /\ ret.provider = "nil"
                  /\ ret.err = "unsupported provider type: " \o config.Type
           /\ config.Type = ProviderTypeNominatim =>
                  ret.provider = "NominatimProvider" /\ ret.err = ""
           /\ (ret.provider = "nil") <=> (ret.err # "")

\* the visicom kind configured without its API key
C19_Witness ==
    /\ fcCall.called
    /\ fcCall.config.Type = ProviderTypeVisicom
    /\ fcCall.config.APIKey = ""
    /\ fcCall.ret.provider = "nil"

\* ------------------------------------------------------------------ C20
\* C20 as stated: every credentialed kind built with RateLimit = 0 gets a
\* default rate budget and a warning; a positive budget is used unchanged
C20_DefaultForEveryCredentialedKind ==
    (fcCall.called /\ fcCall.config.Type \in Credentialed /\ fcCall.config.APIKey # "") =>
        /\ fcCall.config.RateLimit = 0 =>
               /\ fcCall.ret.rateLimited
               /\ fcCall.ret.rateLimit > 0
               /\ fcCall.ret.warned
        /\ fcCall.config.RateLimit > 0 =>
               fcCall.ret.rateLimited /\ fcCall.ret.rateLimit = fcCall.config.RateLimit

\* C20 (amended): for the visicom kind with RateLimit = 0 NewProvider supplies
\* the default rate budget of 5 and logs a warning; for the google kind with
\* RateLimit = 0 it sets no rate limit on the client and logs no warning; a
\* configured positive budget is used unchanged, without a warning.
C20_DefaultForVisicomOnly ==
    (fcCall.called /\ fcCall.config.Type \in Credentialed /\ fcCall.config.APIKey # "") =>
        /\ (fcCall.config.Type = ProviderTypeVisicom /\ fcCall.config.RateLimit = 0) =>
               /\ fcCall.ret.rateLimited
               /\ fcCall.ret.rateLimit = visicomRateLimit
               /\ fcCall.ret.warned
        /\ (fcCall.config.Type = ProviderTypeGoogle /\ fcCall.config.RateLimit = 0) =>
               ~fcCall.ret.rateLimited /\ ~fcCall.ret.warned
        /\ fcCall.config.RateLimit > 0 =>
               /\ fcCall.ret.rateLimited
               /\ fcCall.ret.rateLimit = fcCall.config.RateLimit
               /\ ~fcCall.ret.warned

\* a Visicom provider built from a configuration without a rate budget
C20_Witness ==
    /\ fcCall.called
    /\ fcCall.config.Type = ProviderTypeVisicom
    /\ fcCall.config.RateLimit = 0
    /\ fcCall.ret.provider = "VisicomProvider"
    /\ fcCall.ret.warned

(***************************************************************************)
(* Visicom provider                                                        *)
(***************************************************************************)
RateLimitExceeded == VpFail([VNilErr EXCEPT !.msg = "rate limit exceeded"])

\* C21: Geocode waits on the rate limiter before anything else, and the wait
\* is bounded by cancellation: a call whose context is cancelled before the
\* limiter granted it a token is never granted one afterwards, returns the
\* "rate limit exceeded" error with no coordinates and never calls the HTTP
\* client; and nothing else (the empty-address error, a request) happens
\* without the token.
C21_LimiterWaitBoundedByCancellation ==
    /\ [](vpCall.cancelled /\ ~vpCall.granted =>
            \/ vpCall.pc \in {"idle", "wait"}
            \/ vpCall.pc = "done" /\ vpCall.ret = RateLimitExceeded /\ vpCall.requests = <<>>)
    /\ [](vpCall.requests # <<>> \/ (vpCall.pc = "done" /\ vpCall.ret # RateLimitExceeded)
            => vpCall.granted)
    /\ [][vpCall.cancelled /\ ~vpCall.granted => ~vpCall'.granted]_vars

\* a call that parked on the limiter and was cancelled there
C21_Witness ==
    /\ vpCall.pc = "done" /\ vpCall.waited /\ vpCall.cancelled /\ ~vpCall.granted
    /\ vpCall.address # <<>>
    /\ vpCall.ret = RateLimitExceeded /\ vpCall.requests = <<>>

\* the response the HTTP client gave to the call's request
VpResp == vpCall.requests[1].resp

\* the six results of the classification, each under its condition
SixResults ==
    \/ vpCall.address = <<>> /\ vpCall.ret = VpFail(ErrVisicomEmptyAddress)
    \/ /\ vpCall.address # <<>> /\ vpCall.requests # <<>> /\ VpResp.err = ""
       /\ \/ /\ VpResp.status \in {StatusUnauthorized, StatusForbidden}
             /\ vpCall.ret = VpFail(ErrVisicomUnathorized)
          \/ /\ VpResp.status \notin {StatusOK, StatusUnauthorized, StatusForbidden}
             /\ ~vpCall.ret.coords.set
             /\ vpCall.ret.err.status = VpResp.status /\ vpCall.ret.err.body = VpResp.body
          \/ /\ VpResp.status = StatusOK /\ Len(VpResp.body.coordinates) = 0
             /\ vpCall.ret = VpFail(ErrVisicomEmptyResponse)
          \/ /\ VpResp.status = StatusOK
             /\ Len(VpResp.body.coordinates) \notin {0, coordsListLength}
             /\ vpCall.ret = VpFail(ErrVisicomInvalidCoords)
          \/ /\ VpResp.status = StatusOK
             /\ Len(VpResp.body.coordinates) = coordsListLength
             /\ vpCall.ret = VpFound(VpResp.body.coordinates[2], VpResp.body.coordinates[1])

Settled(t) == db[t].attempts >= MaxAttempts \/ db[t].coords # NoCoords

\* C23: across the cycles of a run, against a repository that applies the
\* writes it accepts: no attempt counter exceeds MaxAttempts; no step raises
\* a counter by more than one and an accepted IncrementFailureCount raises it
\* by exactly one (a cycle makes at most one per task, C1); and a task whose
\* counter reached MaxAttempts or whose coordinates are set is in no later
\* fetch, gets no further Geocode call and no further write.
C23_AttemptLimit ==
    /\ [](\A t \in TaskIds : db[t].attempts <= MaxAttempts)
    /\ [][\A t \in TaskIds :
            /\ db'[t].attempts \in {db[t].attempts, db[t].attempts + 1}
            /\ (/\ Len(writeLog'[t]) = Len(writeLog[t]) + 1
                /\ writeLog'[t][Len(writeLog'[t])].op = "increment"
                /\ writeLog'[t][Len(writeLog'[t])].ok)
                   => db'[t].attempts = db[t].attempts + 1
            /\ Settled(t) =>
                   /\ db'[t] = db[t]
                   /\ Len(geocodeLog'[t]) <= Len(geocodeLog[t])
                   /\ Len(writeLog'[t]) <= Len(writeLog[t])
                   /\ fetchCalls' # fetchCalls => \A i \in 1..Len(tasks') : tasks'[i] # t
          ]_vars

\* a task used up its attempts in an earlier cycle and the current cycle's
\* batch, fetched after that, holds another task but not this one
C23_Witness ==
    \E t \in TaskIds :
        /\ db[t].attempts = MaxAttempts
        /\ db[t].coords = NoCoords
        /\ lastFetch = "batch"
        /\ ~InBatch(t)
        /\ fetchCalls >= 2

(***************************************************************************)
(* Configuration                                                           *)
(***************************************************************************)
\* C24 as stated: when ATLAS_PROVIDER_API_KEY is set to v and MustLoad
\* returns, the loaded configuration's APIKey is v.
C24_APIKeyFromDocumentedVariable ==
    (cfgCall.called /\ cfgCall.ret.panic = "" /\ cfgCall.env["ATLAS_PROVIDER_API_KEY"].set)
        => cfgCall.ret.cfg.APIKey = cfgCall.env["ATLAS_PROVIDER_API_KEY"].val

\* the texts that are integers, and the texts that are durations with their
\* length in seconds, written out one by one
IntegerTexts == {<<"4">>, <<"1", "0">>, <<"0">>, <<"-", "1">>, <<"+", "4">>}
DurationSeconds ==
    [t \in {<<"1", "0", "m">>, <<"5", "s">>, <<"1", "h", "3", "0", "m">>, <<"0">>} |->
        CASE t = <<"1", "0", "m">> -> 600
          [] t = <<"5", "s">> -> 5
          [] t = <<"1", "h", "3", "0", "m">> -> 5400
          [] t = <<"0">> -> 0]

BadInterval(env) ==
    env["ATLAS_INTERVAL"].set /\ env["ATLAS_INTERVAL"].val \notin DOMAIN DurationSeconds
BadInteger(env, key) == env[key].set /\ env[key].val \notin IntegerTexts

\* C25: MustLoad panics, with the message of the first offending variable,
\* exactly when ATLAS_INTERVAL is set to something that is not a duration or
\* ATLAS_HEALTH_PORT or ATLAS_WORKERS to something that is not an integer;
\* otherwise it returns, and a variable that is unset has its default:
\* 10m (600 s), 8080, 10.
C25_PanicsOrDefaults ==
    cfgCall.called =>
        LET env == cfgCall.env
            ret == cfgCall.ret
        IN /\ ret.panic =
                 (IF BadInterval(env) THEN "failed to parse interval from configuration"
                  ELSE IF BadInteger(env, "ATLAS_HEALTH_PORT")
                  THEN "failed to parse port for monitoring server from configuration"
                  ELSE IF BadInteger(env, "ATLAS_WORKERS")
                  THEN "failed to parse workers from configuration, must be an integer types"
                  ELSE "")
           /\ ret.panic = "" =>
                 /\ ~env["ATLAS_INTERVAL"].set => ret.cfg.Interval = 600
                 /\ env["ATLAS_INTERVAL"].set =>
                        ret.cfg.Interval = DurationSeconds[env["ATLAS_INTERVAL"].val]
                 /\ ~env["ATLAS_HEALTH_PORT"].set => ret.cfg.Port = 8080
                 /\ ~env["ATLAS_WORKERS"].set => ret.cfg.Workers = 10

\* the interval and the port are unset and take their defaults, the worker
\* count is not an integer: MustLoad panics about the workers
C25_Witness ==
    /\ cfgCall.called
    /\ ~cfgCall.env["ATLAS_INTERVAL"].set
    /\ ~cfgCall.env["ATLAS_HEALTH_PORT"].set
    /\ cfgCall.env["ATLAS_WORKERS"] = SetTo(<<"1", "x">>)
    /\ cfgCall.ret.panic = "failed to parse workers from configuration, must be an integer types"

(***************************************************************************)
(* Cancellation and the worker pool                                        *)
(***************************************************************************)
\* C26: once the context is cancelled Run starts no further cycle: a select
\* that Run enters with the context cancelled never takes the ticker case,
\* also when a tick is pending, so that no processTask and no
\* FetchTasksForGeocoding follows the cancellation.
C26_NoCycleAfterCancel ==
    [][(cancelled /\ runPc = "select") => runPc' # "tick"]_vars

\* C27: a worker never abandons the queue because of cancellation: a cycle
\* that ends with the context cancelled has had every task of its batch
\* dequeued once, passed once to the provider and written once, and a worker
\* exits only from a queue that is closed and drained.
C27_WorkersDrainAfterCancel ==
    /\ [](cancelled /\ CycleDone =>
            \A t \in TaskIds : InBatch(t) =>
                recvLog[t] = 1 /\ Len(geocodeLog[t]) = 1 /\ Len(writeLog[t]) = 1)
    /\ [][\A w \in Workers :
            (wPc[w] # "exited" /\ wPc'[w] = "exited") => (jobsClosed /\ jobs = <<>>)]_vars

\* the context was cancelled while tasks of the batch were still queued or to
\* be pushed, and the cycle has ended with every one of them handled
C27_Witness ==
    /\ cancelledInBatch
    /\ CycleDone
    /\ Len(tasks) >= 2
    /\ \A t \in TaskIds : InBatch(t) =>
           recvLog[t] = 1 /\ Len(geocodeLog[t]) = 1 /\ Len(writeLog[t]) = 1
    /\ \A w \in Workers : wPc[w] = "exited"

\* C28: for a non-empty batch processTask starts exactly numWorkers workers
\* whatever the batch size; every send puts the next fetched task, once, on
\* the open queue; the queue is closed once, after the last send, and stays
\* closed for the rest of the cycle; and at the end of the cycle every
\* started worker has exited.
C28_PoolShape ==
    /\ []((numWorkers >= 1 /\ (ptPc \in {"push", "wait"} \/ CycleDone)) =>
            spawned = numWorkers)
    /\ [][Len(jobs') > Len(jobs) =>
            /\ ~jobsClosed
            /\ pushed < Len(tasks)
            /\ pushed' = pushed + 1
            /\ jobs' = Append(jobs, tasks[pushed'])]_vars
    /\ [][(~jobsClosed /\ jobsClosed') => (pushed = Len(tasks) /\ ptPc = "push")]_vars
    /\ [][(jobsClosed /\ ~jobsClosed') => ptPc' = "fetch"]_vars
    /\ [](CycleDone =>
            /\ jobsClosed
            /\ pushed = Len(tasks)
            /\ wg = 0
            /\ \A w \in Workers : w <= numWorkers => wPc[w] = "exited")

\* a finished cycle whose batch was smaller than the pool: a worker that
\* received nothing has exited like the others
C28_Witness ==
    /\ CycleDone
    /\ Len(tasks) = 1
    /\ numWorkers >= 2
    /\ spawned = numWorkers
    /\ recvLog[tasks[1]] = 1
    /\ \A w \in Workers : wPc[w] = "exited"

\* C29: processTask is deadlock-free and terminates: the queue's capacity is
\* the batch size, so the producer's next send is never blocked; nothing is
\* sent on the closed queue; and, every repository and provider call
\* returning, a processTask that has begun returns, with all its workers
\* exited, for every batch size and every numWorkers >= 1.
C29_ProcessTaskTerminates ==
    /\ [](ptPc \in {"push", "wait"} => jobsCap = Len(tasks))
    /\ []((ptPc = "push" /\ pushed < Len(tasks)) => (Len(jobs) < jobsCap /\ ~jobsClosed))
    /\ [][jobsClosed => Len(jobs') <= Len(jobs)]_vars
    /\ ((numWorkers >= 1 /\ ptPc # "idle") ~>
            (ptPc = "idle" /\ \A w \in Workers : wPc[w] \in {"none", "exited"}))

\* a cycle of two tasks run by a single worker has returned: both tasks sat
\* in the queue together, and the worker has exited
C29_Witness ==
    /\ CycleDone
    /\ numWorkers = 1
    /\ Len(tasks) = 2
    /\ jobsCap = 2
    /\ \A t \in TaskIds : InBatch(t) => Len(writeLog[t]) = 1
    /\ wPc[1] = "exited"

\* C30: with numWorkers zero or negative, a processTask that fetched a
\* non-empty batch starts no worker and still returns: its sends and its
\* wgr.Wait() are never blocked; the tasks get no provider call and no write,
\* and no failure is counted or stored.
C30_NoWorkersNoWork ==
    /\ [](numWorkers <= 0 =>
            /\ spawned = 0 /\ wg = 0
            /\ \A w \in Workers : wPc[w] = "none"
            /\ \A t \in TaskIds :
                   recvLog[t] = 0 /\ geocodeLog[t] = <<>> /\ writeLog[t] = <<>>
            /\ db = FreshTasks
            /\ metrics.observed = 0 /\ metrics.failure = 0 /\ metrics.apiErrors = 0
            /\ (ptPc = "push" /\ pushed < Len(tasks)) => Len(jobs) < jobsCap
            /\ ptPc = "wait" => WaitReturns)
    /\ ((numWorkers <= 0 /\ ptPc = "spawn") ~> CycleDone)

\* a pool of no workers has returned from a batch of NumTasks tasks, which
\* all still sit in the closed queue
C30_Witness ==
    /\ numWorkers = 0
    /\ CycleDone
    /\ Len(tasks) = NumTasks
    /\ jobs = tasks
    /\ jobsClosed
    /\ runPc = "select"

(***************************************************************************)
(* Metrics                                                                 *)
(***************************************************************************)
\* the workers between taking a task and finishing its repository write
Busy == {w \in Workers : wPc[w] \in {"geocode", "branch"}}

C32_OutcomeCounters ==
    /\ [](ptPc = "idle" =>
            /\ metrics.success + metrics.failure = totals.taken
            /\ totals.taken = metrics.observed
            /\ metrics.observed = totals.calls
            /\ metrics.apiErrors = metrics.failure)
    /\ [][/\ metrics'.success >= metrics.success
          /\ metrics'.failure >= metrics.failure
          /\ metrics'.apiErrors >= metrics.apiErrors
          /\ metrics'.observed >= metrics.observed]_vars

\* between cycles, after three tasks were taken, some resolved and some not
C32_Witness ==
    /\ ptPc = "idle"
    /\ totals.taken >= 3
    /\ metrics.success >= 1
    /\ metrics.failure >= 1
    /\ metrics.success + metrics.failure = totals.taken

\* the step appends a write of this kind to the task's log
Writes(t, op) ==
    /\ Len(writeLog'[t]) = Len(writeLog[t]) + 1
    /\ writeLog'[t][Len(writeLog'[t])].op = op

\* the tasks whose coordinates are stored
Located == {t \in TaskIds : db[t].coords # NoCoords}

Pending(t) == db[t].coords = NoCoords /\ db[t].attempts < MaxAttempts /\ Address(t) # ""

\* C34: a refused repository write leaves the task record as it was and the
\* task eligible: the step of a refused UpdateTaskCoordinates or
\* IncrementFailureCount changes nothing in public.tasks; a task whose update
\* was refused gets no IncrementFailureCount in that cycle; and every fetch
\* that succeeds returns every task that is still pending, so that such a
\* task is fetched (and, C11, resolved) again in the next cycle.
C34_RefusedWriteKeepsTaskEligible ==
    /\ [][\A t \in TaskIds :
            (/\ Len(writeLog'[t]) = Len(writeLog[t]) + 1
             /\ ~writeLog'[t][Len(writeLog'[t])].ok) => db' = db]_vars
    /\ [](\A t \in TaskIds :
            (writeLog[t] # <<>> /\ writeLog[t][1].op = "update") => Len(writeLog[t]) = 1)
    /\ [][(fetchCalls' # fetchCalls /\ lastFetch' # "error") =>
            \A t \in TaskIds : Pending(t) => \E i \in 1..Len(tasks') : tasks'[i] = t]_vars

\* no write was ever accepted and no resolution ever failed, yet more
\* successes are counted than there are tasks: a task whose update was
\* refused has been fetched again and resolved again
C34_Witness ==
    /\ db = FreshTasks
    /\ metrics.failure = 0
    /\ metrics.success > NumTasks
    /\ fetchCalls >= 2
    /\ \E t \in TaskIds : InBatch(t) /\ Len(geocodeLog[t]) = 1 /\ geocodeLog[t][1].res.ok

\* the address the provider is to be asked for, written out
PrefixedAddress(t) ==
    IF prefix = "" THEN (IF t = 1 THEN "Kyiv" ELSE IF t = 2 THEN "Lviv" ELSE "Odesa")
    ELSE (IF t = 1 THEN "UA, Kyiv" ELSE IF t = 2 THEN "UA, Lviv" ELSE "UA, Odesa")

\* C35: every provider call of a worker is made with the configured prefix
\* followed directly by the task's raw address (the raw address when the
\* prefix is empty), the prefix occurring once, in every cycle; and the write
\* that follows goes to the record of the task the address came from, with
\* what that call returned.
C35_PrefixedAddress ==
    \A t \in TaskIds :
        /\ \A i \in 1..Len(geocodeLog[t]) : geocodeLog[t][i].address = PrefixedAddress(t)
        /\ \A i \in 1..Len(writeLog[t]) :
               /\ i <= Len(geocodeLog[t])
               /\ writeLog[t][i].arg = geocodeLog[t][i].res.val
               /\ writeLog[t][i].op = "update" => writeLog[t][i].arg = "@" \o PrefixedAddress(t)

\* with an empty prefix, a task fetched for the second time is asked for by
\* its raw address and its coordinates are stored in its own record
C35_Witness ==
    /\ prefix = ""
    /\ fetchCalls >= 2
    /\ db[2].attempts = 1
    /\ geocodeLog[2] # <<>> /\ geocodeLog[2][1].address = "Lviv"
    /\ writeLog[2] # <<>> /\ writeLog[2][1].op = "update" /\ writeLog[2][1].ok
    /\ db[2].coords = "@Lviv"

\* C36: within a cycle tasks leave the queue in fetch order: a task has been
\* received only if every task before it in the batch has been received;
\* with a single worker a task is resolved only after every task before it
\* has had its write. (That completion across several workers is not
\* ordered is what the witness shows.)
C36_QueueOrder ==
    \A i, j \in 1..Len(tasks) :
        i < j =>
            /\ recvLog[tasks[j]] >= 1 => recvLog[tasks[i]] >= 1
            /\ numWorkers = 1 =>
                   (geocodeLog[tasks[j]] # <<>> => writeLog[tasks[i]] # <<>>)

\* two workers: the second task of the batch has its write while the
\* first, received before it, has none yet
C36_Witness ==
    /\ numWorkers >= 2
    /\ Len(tasks) = 2
    /\ recvLog[tasks[1]] = 1
    /\ writeLog[tasks[1]] = <<>>
    /\ writeLog[tasks[2]] # <<>>

(***************************************************************************)
(* Nominatim: requests per call, shape of the fallbacks                    *)
(***************************************************************************)
NoComma(address) == \A i \in 1..Len(address) : address[i] # ","

\* C37: Nominatim Geocode always terminates, every outbound request
\* returning, and has then issued between 1 and 4 requests, exactly 1 for an
\* address without a comma (the empty address included); it never requests
\* the same variation twice.
C37_RequestsPerCall ==
    /\ [](Len(httpLog) <= 4)
    /\ [](\A i, j \in 1..Len(httpLog) : i # j => httpLog[i].q # httpLog[j].q)
    /\ [](npPc = "done" =>
            /\ Len(httpLog) >= 1
            /\ NoComma(npAddress) => Len(httpLog) = 1)
    /\ (npPc = "loop" ~> npPc = "done")

\* a call that ended after four requests
C37_Witness ==
    /\ npPc = "done"
    /\ Len(httpLog) = 4
    /\ Len(addressVariations) = 4

\* C38: for every address the sequence generateAddressFallbacks returns is
\* non-empty, begins with the address itself, has pairwise distinct elements,
\* holds no empty string unless the address is empty, and has at most 4
\* elements; in particular an address whose first component is empty
\* produces no empty variation.
C38_FallbacksShape ==
    npPc # "idle" =>
        /\ Len(addressVariations) >= 1
        /\ Len(addressVariations) <= 4
        /\ addressVariations[1] = npAddress
        /\ \A i, j \in 1..Len(addressVariations) :
               i # j => addressVariations[i] # addressVariations[j]
        /\ npAddress # <<>> => \A i \in 1..Len(addressVariations) : addressVariations[i] # <<>>

\* an address that starts with a comma: its empty first component is among
\* the candidates and not among the variations
C38_Witness ==
    /\ npPc # "idle"
    /\ npAddress # <<>> /\ npAddress[1] = ","
    /\ Len(Components(npAddress)) >= 2
    /\ Components(npAddress)[1] = <<>>
    /\ Len(addressVariations) >= 2
    /\ \A i \in 1..Len(addressVariations) : addressVariations[i] # <<>>

(***************************************************************************)
(* main: the rate budget handed to the factory                             *)
(***************************************************************************)
\* main got as far as the provider configuration
Budgeted == mainCall.called /\ mainCall.abort # "Failed to connect to DB"

\* C39: the rate budget main passes to the factory is the integer quotient
\* 50 div Workers: at least 1 for 1 to 50 workers, 0 for more than 50, and
\* then Visicom is built with the default 5 and Google with no explicit
\* limit; with 0 workers the startup aborts with a division by zero.
C39_RateBudget ==
    Budgeted =>
        LET workers == mainCall.cfg.Workers
            budget == mainCall.providerConfig.RateLimit
            ret == mainCall.ret
        IN /\ workers = 0 <=> mainCall.abort = "panic: runtime error: integer divide by zero"
           /\ workers > 0 =>
                /\ budget * workers <= 50 /\ 50 < (budget + 1) * workers
                /\ workers <= 50 => budget >= 1
                /\ workers > 50 => budget = 0
           /\ (workers > 50 /\ mainCall.abort = "") =>
                /\ ret.provider = "VisicomProvider" =>
                       ret.rateLimited /\ ret.rateLimit = 5 /\ ret.warned
                /\ ret.provider = "GoogleProvider" => ~ret.rateLimited

\* more workers than budget, and a Visicom provider built on the default
C39_Witness ==
    /\ Budgeted
    /\ mainCall.cfg.Workers > 50
    /\ mainCall.providerConfig.RateLimit = 0
    /\ mainCall.ret.provider = "VisicomProvider"
    /\ mainCall.ret.rateLimit = 5

(***************************************************************************)
(* No starvation across cycles                                             *)
(***************************************************************************)
\* C40 as stated: while ticks keep occurring and every fetch and repository
\* write succeeds, every pending task eventually leaves the pending set.
C40_NoStarvation ==
    \A t \in TaskIds : Pending(t) ~> ~Pending(t)

\* C40: while ticks keep occurring and every fetch and repository write
\* succeeds, a service with at least one worker takes every pending task out
\* of the pending set, by coordinates or by MaxAttempts attempts, also when
\* the backlog is larger than the batch: the batch is the oldest pending
\* tasks, and every task of a batch is written in its cycle.
C40_NoStarvationWithWorkers ==
    /\ \A t \in TaskIds : (numWorkers >= 1 /\ Pending(t)) ~> ~Pending(t)
    /\ [](lastFetch = "batch" =>
            /\ Len(tasks) <= ScaledTaskLimit
            /\ \A i \in 1..Len(tasks), t \in TaskIds :
                   (t < tasks[i] /\ ~InBatch(t)) => ~Pending(t))
    /\ []((numWorkers >= 1 /\ CycleDone) =>
            \A t \in TaskIds : InBatch(t) => (writeLog[t] # <<>> /\ writeLog[t][1].ok))

\* the newest task waited behind a full batch and has left the pending set
\* with its attempts used up
C40_Witness ==
    /\ numWorkers >= 1
    /\ NumTasks > ScaledTaskLimit
    /\ \A t \in TaskIds : ~Pending(t)
    /\ db[NumTasks].attempts = MaxAttempts
    /\ db[NumTasks].coords = NoCoords

====
